---------------------------- MODULE Spec2Model ----------------------------
(***************************************************************************)
(* Model of the match-statistics store of the Dota mini app                *)
(* (backend/stats_db.py) and of the ingestion pipeline that feeds it       *)
(* (backend/stats_updater.py).                                             *)
(*                                                                         *)
(* The datastore is the record db of five tables, each a set of rows.      *)
(* db holds the COMMITTED rows: what a connection opened with              *)
(* engine.connect() in another process (the API, the bot) reads.  A write  *)
(* operation of the store runs inside `with engine.begin() as conn`; the   *)
(* rows its statements have written so far live in txn.work and become db  *)
(* at commit, or are dropped at rollback.  The store functions are         *)
(* synchronous and the worker is a single asyncio thread, so at most one   *)
(* write transaction is in flight.                                         *)
(*                                                                         *)
(* Spec is the store under any sequence of calls of its three write        *)
(* operations, statement by statement, every statement able to raise.      *)
(* SpecLoops is the worker: its two ingestion loops interleaved at their   *)
(* awaits.  SpecLimiter is the rate limiter the loops share, on a clock.   *)
(* SpecCache is the hero-matchups cache (backend/db.py,                    *)
(* backend/hero_matchups_service.py) under the requests of two processes.  *)
(* SpecTokens is the token table (backend/db.py) on a clock of hours.      *)
(* SpecCleanup is run_cleanup over a filled store, SpecProcess is          *)
(* process_single_match over every answer of the provider, SpecLive the    *)
(* two loops with their failures under fairness, SpecRanking the counters  *)
(* endpoint of the API (backend/api.py) beside the worker.  SpecRank is    *)
(* the rank bucket of a stored match.  SpecWorker is the worker with its   *)
(* switches, the per-cycle cap and the requests it has out, under          *)
(* fairness; SpecPairs the saves and evictions over lineups of either      *)
(* orientation; SpecBackfill the backfill of match_players; SpecMain the   *)
(* tick of main() with the cleanup branch, on a clock of hours;            *)
(* SpecAnswers the API's counters endpoint and the bot's /counters         *)
(* (backend/bot.py) over the same store.                                   *)
(***************************************************************************)
EXTENDS Integers, Sequences, FiniteSets, TLC

VARIABLES db, txn, loops, limiter, cache, tokens, cleanup, proc, reply, ranked, worker, backfill,
          main

storeVars == <<db, txn>>
vars ==
    <<db, txn, loops, limiter, cache, tokens, cleanup, proc, reply, ranked, worker, backfill,
      main>>

(***************************************************************************)
(* Values                                                                  *)
(***************************************************************************)
\* Python's None, for the Optional[int] fields (duration, game_mode, lobby_type).
NULL == -1

MIN_MATCH_DURATION_SECONDS == 900

ALLOWED_GAME_MODE_PAIRS == {<<22, 7>>}

\* Number of match ids the provider knows.
MaxMatchId == 2

MatchIds == 1..MaxMatchId

\* int(b) and bool(n) as stats_db.py uses them on radiant_win.
IntOf(b) == IF b THEN 1 ELSE 0

BoolOf(n) == n # 0

Min(x, y) == IF x < y THEN x ELSE y

Max(x, y) == IF x < y THEN y ELSE x

(***************************************************************************)
(* json.dumps / json.loads of a list of ints: the text is a sequence of    *)
(* tokens "[", int, ",", int, ..., "]".                                    *)
(***************************************************************************)
Tok(k, v) == [k |-> k, v |-> v]

RECURSIVE JsonItems(_)
JsonItems(xs) ==
    IF xs = <<>> THEN <<>>
    ELSE IF Len(xs) = 1 THEN <<Tok("int", xs[1])>>
    ELSE <<Tok("int", xs[1]), Tok(",", 0)>> \o JsonItems(Tail(xs))

JsonDumps(xs) == <<Tok("[", 0)>> \o JsonItems(xs) \o <<Tok("]", 0)>>

JsonLoads(s) ==
    LET ints == SelectSeq(s, LAMBDA t : t.k = "int")
    IN  [i \in 1..Len(ints) |-> ints[i].v]

(***************************************************************************)
(* Provider payloads (GET /matches/{id}).  A payload carries the players   *)
(* as (hero_id, player_slot); Radiant slots are 0..4, Dire slots 128..132. *)
(***************************************************************************)
Team(heroes, base) ==
    [i \in 1..Len(heroes) |-> [hero_id |-> heroes[i], player_slot |-> base + i - 1]]

Lineup(r, d) == Team(r, 0) \o Team(d, 128)

\* Well-formed 5+5 lineups with the result (radiant_win): all heroes distinct
\* (one lineup with either result, one with the ids interleaved), a hero
\* picked twice on one team, a hero picked on both teams.
Played ==
    { <<Lineup(<<1, 2, 3, 4, 5>>, <<6, 7, 8, 9, 10>>), TRUE>>,
      <<Lineup(<<1, 2, 3, 4, 5>>, <<6, 7, 8, 9, 10>>), FALSE>>,
      <<Lineup(<<1, 4, 6, 8, 10>>, <<2, 3, 5, 7, 9>>), FALSE>>,
      <<Lineup(<<1, 1, 2, 3, 4>>, <<6, 7, 8, 9, 10>>), TRUE>>,
      <<Lineup(<<1, 2, 3, 4, 5>>, <<5, 6, 7, 8, 9>>), FALSE>> }

\* Payloads the parser rejects: 9 players, a zero hero id, a 6+4 split.
BadLineups ==
    { Lineup(<<1, 2, 3, 4>>, <<6, 7, 8, 9, 10>>),
      Lineup(<<1, 2, 3, 4, 0>>, <<6, 7, 8, 9, 10>>),
      Lineup(<<1, 2, 3, 4, 5, 6>>, <<7, 8, 9, 10>>) }

Detail(id, players, win, dur, gm, lt) ==
    [match_id |-> id, start_time |-> id, duration |-> dur,
     game_mode |-> gm, lobby_type |-> lt, radiant_win |-> win,
     players |-> players]

FirstLineup == Lineup(<<1, 2, 3, 4, 5>>, <<6, 7, 8, 9, 10>>)

\* What the provider may answer for match id: every played lineup at the
\* eligibility boundary, the first lineup with a short and with a missing
\* duration, the first lineup in modes outside the allow-list, and the
\* malformed payloads.
DetailsFor(id) ==
    { Detail(id, x[1], x[2], MIN_MATCH_DURATION_SECONDS, 22, 7) : x \in Played }
    \cup { Detail(id, FirstLineup, TRUE, d, 22, 7) :
             d \in {NULL, MIN_MATCH_DURATION_SECONDS - 1} }
    \cup { Detail(id, FirstLineup, TRUE, MIN_MATCH_DURATION_SECONDS, m[1], m[2]) :
             m \in {<<23, 7>>, <<NULL, 7>>, <<22, NULL>>} }
    \cup { Detail(id, l, TRUE, MIN_MATCH_DURATION_SECONDS, 22, 7) : l \in BadLineups }

Details == UNION { DetailsFor(id) : id \in MatchIds }

(***************************************************************************)
(* _parse_match_details                                                    *)
(***************************************************************************)
NoRecord == [match_id |-> 0]

_extract_player_stats(p) ==
    [hero_id |-> p.hero_id, player_slot |-> p.player_slot,
     is_radiant |-> IF p.player_slot < 128 THEN 1 ELSE 0]

\* [p["hero_id"] for p in players if p.get("player_slot") is not None and p["player_slot"] < 128]
RadiantHeroes(players) ==
    LET sel == SelectSeq(players, LAMBDA p : p.player_slot # NULL /\ p.player_slot < 128)
    IN  [i \in 1..Len(sel) |-> sel[i].hero_id]

\* [... if p.get("player_slot") is not None and p["player_slot"] >= 128]
DireHeroes(players) ==
    LET sel == SelectSeq(players, LAMBDA p : p.player_slot # NULL /\ p.player_slot >= 128)
    IN  [i \in 1..Len(sel) |-> sel[i].hero_id]

\* Fault: the 5+5 split is not tested.
ParseAnySplit(match) ==
    LET players == match.players
    IN  IF match.match_id = 0 THEN NoRecord
        ELSE IF Len(players) # 10 THEN NoRecord
        ELSE IF Len(SelectSeq(players, LAMBDA p : p.hero_id = 0 \/ p.hero_id = NULL)) # 0
             THEN NoRecord
        ELSE [match_id       |-> match.match_id,
              start_time     |-> match.start_time,
              duration       |-> match.duration,
              game_mode      |-> match.game_mode,
              lobby_type     |-> match.lobby_type,
              radiant_win    |-> match.radiant_win,
              radiant_heroes |-> RadiantHeroes(players),
              dire_heroes    |-> DireHeroes(players),
              players        |-> [i \in 1..Len(players) |->
                                     _extract_player_stats(players[i])]]

_parse_match_details(match) ==
    LET players        == match.players
        missing_hero   == Len(SelectSeq(players, LAMBDA p : p.hero_id = 0 \/ p.hero_id = NULL))
        radiant_heroes == RadiantHeroes(players)
        dire_heroes    == DireHeroes(players)
    IN  IF match.match_id = 0 THEN NoRecord
        ELSE IF Len(players) # 10 THEN NoRecord
        ELSE IF missing_hero # 0 THEN NoRecord
        ELSE IF Len(radiant_heroes) # 5 \/ Len(dire_heroes) # 5 THEN NoRecord
        ELSE [match_id       |-> match.match_id,
              start_time     |-> match.start_time,
              duration       |-> match.duration,
              game_mode      |-> match.game_mode,
              lobby_type     |-> match.lobby_type,
              radiant_win    |-> match.radiant_win,
              radiant_heroes |-> radiant_heroes,
              dire_heroes    |-> dire_heroes,
              players        |-> [i \in 1..Len(players) |->
                                     _extract_player_stats(players[i])]]

\* Every record the parser returns, whatever its mode.
ParsedRecords == { _parse_match_details(d) : d \in Details } \ {NoRecord}

(***************************************************************************)
(* Tables.  A table is a set of rows; the SQL conflict clauses are         *)
(* modelled by what they do on the key.                                    *)
(***************************************************************************)
EmptyDb ==
    [matches |-> {}, match_players |-> {}, hero_stats |-> {},
     hero_matchups |-> {}, hero_synergy |-> {}]

Aggregates(d) ==
    [hero_stats |-> d.hero_stats, hero_matchups |-> d.hero_matchups,
     hero_synergy |-> d.hero_synergy]

\* SELECT 1 FROM matches WHERE match_id = :id
match_exists(d, id) == \E r \in d.matches : r.match_id = id

\* Fault: the gate looks at the nulls only, not at the pair.
PairNotChecked(p) == p.game_mode = NULL \/ p.lobby_type = NULL

\* Fault: no gate.
GateOpen(p) == FALSE

\* The hard gate of save_match_and_update_aggregates.
Blocked(p) ==
    \/ p.game_mode = NULL
    \/ p.lobby_type = NULL
    \/ <<p.game_mode, p.lobby_type>> \notin ALLOWED_GAME_MODE_PAIRS

MatchRow(p) ==
    [match_id       |-> p.match_id,
     start_time     |-> p.start_time,
     duration       |-> p.duration,
     game_mode      |-> p.game_mode,
     lobby_type     |-> p.lobby_type,
     radiant_win    |-> IntOf(p.radiant_win),
     radiant_heroes |-> JsonDumps(p.radiant_heroes),
     dire_heroes    |-> JsonDumps(p.dire_heroes)]

\* Fault: the insert without its conflict clause.
InsertMatchNoConflictClause(matches, p) == matches \cup {MatchRow(p)}

\* INSERT INTO matches ... ON CONFLICT (match_id) DO NOTHING
InsertMatch(matches, p) ==
    IF \E r \in matches : r.match_id = p.match_id
    THEN matches
    ELSE matches \cup {MatchRow(p)}

\* Fault: the rowcount of the insert is not looked at.
RowcountIgnored(matches, p) == TRUE

\* rowcount == 1 of that insert
IsNew(matches, p) == ~ \E r \in matches : r.match_id = p.match_id

\* Fault: the duration filter of the save lets every match through.
NeverTooShort(duration) == FALSE

TooShort(duration) == duration # NULL /\ duration < MIN_MATCH_DURATION_SECONDS

\* INSERT INTO match_players ... ON CONFLICT (match_id, player_slot) DO NOTHING
InsertPlayer(tbl, match_id, pl) ==
    IF \E r \in tbl : r.match_id = match_id /\ r.player_slot = pl.player_slot
    THEN tbl
    ELSE tbl \cup {[match_id |-> match_id, hero_id |-> pl.hero_id,
                    player_slot |-> pl.player_slot, is_radiant |-> pl.is_radiant]}

RECURSIVE InsertPlayers(_, _, _)
InsertPlayers(tbl, match_id, players) ==
    IF players = <<>> THEN tbl
    ELSE InsertPlayers(InsertPlayer(tbl, match_id, Head(players)), match_id, Tail(players))

\* excluded.*: the row the statement proposes, VALUES (..., 1, :w).
Excluded(key, w) == key @@ [games |-> 1, wins |-> w]

\* Fault: DO UPDATE SET games = excluded.games, wins = <table>.wins + excluded.wins
DoUpdateOverwritesGames(row, excluded) ==
    [row EXCEPT !.games = excluded.games, !.wins = row.wins + excluded.wins]

\* DO UPDATE SET games = <table>.games + 1, wins = <table>.wins + excluded.wins
DoUpdate(row, excluded) ==
    [row EXCEPT !.games = row.games + 1, !.wins = row.wins + excluded.wins]

\* ON CONFLICT (<the primary key>): a row with the key of the proposed one.
Conflict(tbl, key) == \E r \in tbl : \A f \in DOMAIN key : r[f] = key[f]

\* INSERT INTO <tbl> (..., games, wins) VALUES (..., 1, :w): no conflict.
Insert(tbl, key, w) == tbl \cup {Excluded(key, w)}

\* INSERT ... ON CONFLICT (...) DO UPDATE SET ...: the conflicting row updated.
Update(tbl, key, w) ==
    { IF \A f \in DOMAIN key : r[f] = key[f] THEN DoUpdate(r, Excluded(key, w)) ELSE r :
      r \in tbl }

StatKey(h) == [hero_id |-> h]

PairKey(a, b) == [hero_a |-> a, hero_b |-> b]

\* for h in heroes: INSERT INTO hero_stats ... ON CONFLICT (hero_id) DO UPDATE ...
RECURSIVE StatsLoop(_, _, _)
StatsLoop(tbl, heroes, w) ==
    IF heroes = <<>> THEN tbl
    ELSE IF Conflict(tbl, StatKey(Head(heroes)))
         THEN StatsLoop(Update(tbl, StatKey(Head(heroes)), w), Tail(heroes), w)
         ELSE StatsLoop(Insert(tbl, StatKey(Head(heroes)), w), Tail(heroes), w)

\* ----- hero_stats -----
SaveHeroStats(tbl, radiant_heroes, dire_heroes, radiant_win) ==
    StatsLoop(StatsLoop(tbl, radiant_heroes, IntOf(radiant_win)),
              dire_heroes, IntOf(~radiant_win))

\* Fault: the row gets the outcome of Radiant, whichever id is smaller.
AWinsOfRadiant(r_hero, d_hero, radiant_win) == IntOf(radiant_win)

\* a_wins = int((r_hero < d_hero) == radiant_win)
AWins(r_hero, d_hero, radiant_win) == IntOf((r_hero < d_hero) = radiant_win)

\* for d_hero in dire_heroes: if r_hero == d_hero: continue; a = min, b = max; upsert
RECURSIVE MatchupInner(_, _, _, _)
MatchupInner(tbl, r_hero, dire_heroes, radiant_win) ==
    IF dire_heroes = <<>> THEN tbl
    ELSE LET d_hero == Head(dire_heroes)
             key    == PairKey(Min(r_hero, d_hero), Max(r_hero, d_hero))
             a_wins == AWins(r_hero, d_hero, radiant_win)
         IN  IF r_hero = d_hero
             THEN MatchupInner(tbl, r_hero, Tail(dire_heroes), radiant_win)
             ELSE IF Conflict(tbl, key)
             THEN MatchupInner(Update(tbl, key, a_wins), r_hero,
                               Tail(dire_heroes), radiant_win)
             ELSE MatchupInner(Insert(tbl, key, a_wins), r_hero,
                               Tail(dire_heroes), radiant_win)

\* ----- hero_matchups -----
RECURSIVE SaveHeroMatchups(_, _, _, _)
SaveHeroMatchups(tbl, radiant_heroes, dire_heroes, radiant_win) ==
    IF radiant_heroes = <<>> THEN tbl
    ELSE SaveHeroMatchups(
             MatchupInner(tbl, Head(radiant_heroes), dire_heroes, radiant_win),
             Tail(radiant_heroes), dire_heroes, radiant_win)

\* for j in range(i + 1, n): a = min, b = max; upsert
RECURSIVE SynergyInner(_, _, _, _)
SynergyInner(tbl, h, rest, w) ==
    IF rest = <<>> THEN tbl
    ELSE LET key == PairKey(Min(h, Head(rest)), Max(h, Head(rest)))
         IN  IF Conflict(tbl, key)
             THEN SynergyInner(Update(tbl, key, w), h, Tail(rest), w)
             ELSE SynergyInner(Insert(tbl, key, w), h, Tail(rest), w)

\* for i in range(n)
RECURSIVE SynergyTeam(_, _, _)
SynergyTeam(tbl, heroes, w) ==
    IF heroes = <<>> THEN tbl
    ELSE SynergyTeam(SynergyInner(tbl, Head(heroes), Tail(heroes), w), Tail(heroes), w)

\* Fault: the pairs of Dire get the outcome of Radiant.
SynergyWinsOfRadiant(tbl, radiant_heroes, dire_heroes, radiant_win) ==
    SynergyTeam(SynergyTeam(tbl, radiant_heroes, IntOf(radiant_win)),
                dire_heroes, IntOf(radiant_win))

\* ----- hero_synergy -----
SaveHeroSynergy(tbl, radiant_heroes, dire_heroes, radiant_win) ==
    SynergyTeam(SynergyTeam(tbl, radiant_heroes, IntOf(radiant_win)),
                dire_heroes, IntOf(~radiant_win))

(***************************************************************************)
(* Rebuild: delete_matches_and_recalculate / recalculate_all_aggregates.   *)
(* A Python dict is a function from its keys to <<games, wins>>.           *)
(***************************************************************************)
EmptyAcc == [stats |-> <<>>, matchups |-> <<>>, synergy |-> <<>>]

\* d[key] = [0, 0]
DictNew(d, key) == d @@ (key :> <<0, 0>>)

\* d[key][0] += 1; d[key][1] += w
DictAdd(d, key, w) == [d EXCEPT ![key] = <<@[1] + 1, @[2] + w>>]

\* Fault: the SELECT of the rebuild without its duration filter.
NoDurationFilter(matches) == matches

\* SELECT ... FROM matches WHERE duration IS NULL OR duration >= :min_dur
Remaining(matches) ==
    { r \in matches : r.duration = NULL \/ r.duration >= MIN_MATCH_DURATION_SECONDS }

\* for h in heroes: if h not in stats: stats[h] = [0, 0]; stats[h][0] += 1; ...
RECURSIVE AccStats(_, _, _)
AccStats(stats, heroes, w) ==
    IF heroes = <<>> THEN stats
    ELSE IF Head(heroes) \notin DOMAIN stats
         THEN AccStats(DictAdd(DictNew(stats, Head(heroes)), Head(heroes), w),
                       Tail(heroes), w)
         ELSE AccStats(DictAdd(stats, Head(heroes), w), Tail(heroes), w)

\* for d in d_heroes: if r == d: continue; key = (min, max); ...
RECURSIVE AccMatchupInner(_, _, _, _)
AccMatchupInner(matchups, r, d_heroes, radiant_win) ==
    IF d_heroes = <<>> THEN matchups
    ELSE LET d      == Head(d_heroes)
             key    == <<Min(r, d), Max(r, d)>>
             a_wins == IntOf((r < d) = radiant_win)
         IN  IF r = d
             THEN AccMatchupInner(matchups, r, Tail(d_heroes), radiant_win)
             ELSE IF key \notin DOMAIN matchups
             THEN AccMatchupInner(DictAdd(DictNew(matchups, key), key, a_wins),
                                  r, Tail(d_heroes), radiant_win)
             ELSE AccMatchupInner(DictAdd(matchups, key, a_wins),
                                  r, Tail(d_heroes), radiant_win)

RECURSIVE AccMatchups(_, _, _, _)
AccMatchups(matchups, r_heroes, d_heroes, radiant_win) ==
    IF r_heroes = <<>> THEN matchups
    ELSE AccMatchups(AccMatchupInner(matchups, Head(r_heroes), d_heroes, radiant_win),
                     Tail(r_heroes), d_heroes, radiant_win)

RECURSIVE AccSynergyInner(_, _, _, _)
AccSynergyInner(synergy, h, rest, w) ==
    IF rest = <<>> THEN synergy
    ELSE LET key == <<Min(h, Head(rest)), Max(h, Head(rest))>>
         IN  IF key \notin DOMAIN synergy
             THEN AccSynergyInner(DictAdd(DictNew(synergy, key), key, w),
                                  h, Tail(rest), w)
             ELSE AccSynergyInner(DictAdd(synergy, key, w), h, Tail(rest), w)

RECURSIVE AccSynergy(_, _, _)
AccSynergy(synergy, heroes, w) ==
    IF heroes = <<>> THEN synergy
    ELSE AccSynergy(AccSynergyInner(synergy, Head(heroes), Tail(heroes), w),
                    Tail(heroes), w)

\* The body of `for row in remaining`.
AccumulateRow(acc, row) ==
    LET radiant_win == BoolOf(row.radiant_win)
        r_heroes    == JsonLoads(row.radiant_heroes)
        d_heroes    == JsonLoads(row.dire_heroes)
    IN  [stats    |-> AccStats(AccStats(acc.stats, r_heroes, IntOf(radiant_win)),
                               d_heroes, IntOf(~radiant_win)),
         matchups |-> AccMatchups(acc.matchups, r_heroes, d_heroes, radiant_win),
         synergy  |-> AccSynergy(AccSynergy(acc.synergy, r_heroes, IntOf(radiant_win)),
                                 d_heroes, IntOf(~radiant_win))]

\* The rows come in the datastore's order; the sums do not depend on it.
RECURSIVE Accumulate(_, _)
Accumulate(acc, rows) ==
    IF rows = {} THEN acc
    ELSE LET row == CHOOSE r \in rows : TRUE
         IN  Accumulate(AccumulateRow(acc, row), rows \ {row})

\* INSERT INTO hero_matchups / hero_synergy (hero_a, hero_b, games, wins) VALUES ...
BulkInsertPairs(tbl, d) ==
    tbl \cup { [hero_a |-> k[1], hero_b |-> k[2], games |-> d[k][1], wins |-> d[k][2]] :
               k \in DOMAIN d }

\* INSERT INTO hero_stats (hero_id, games, wins) VALUES ...
BulkInsertStats(tbl, d) ==
    tbl \cup { [hero_id |-> h, games |-> d[h][1], wins |-> d[h][2]] : h \in DOMAIN d }

(***************************************************************************)
(* Transactions.  `with engine.begin() as conn`: the statements of the     *)
(* block write to the connection's own view; other connections see the     *)
(* committed rows only.  Leaving the block (also by `return`) commits, an  *)
(* exception rolls back.                                                   *)
(***************************************************************************)
\* Fault: every statement commits on its own (no transaction).
Autocommit(committed, work) == work

\* Fault: an exception leaves the statements already run in place.
NoRollback(committed, work) == work

VisibleAfterStatement(committed, work) == committed

VisibleAfterCommit(committed, work) == work

VisibleAfterRollback(committed, work) == committed

\* txn: the running call of the store.  op and pc: the function and its next
\* statement; p, ids: its arguments; work: the rows of its connection; acc:
\* the dicts of the rebuild; before: the committed rows when it was called;
\* result: how it returned.
Idle ==
    [op |-> "idle", pc |-> "idle", p |-> NoRecord, ids |-> {}, is_new |-> FALSE,
     retry |-> FALSE, failed_at |-> "none", before |-> EmptyDb, work |-> EmptyDb,
     acc |-> EmptyAcc, result |-> "none"]

\* Positions inside an open transaction, where the next statement may raise.
InTxn ==
    {"insert_match", "players", "hero_stats", "hero_matchups", "hero_synergy",
     "delete_players", "delete_matches", "wipe", "accumulate",
     "insert_matchups", "insert_synergy", "insert_stats", "commit"}

\* No call is running: the next one may start.
Ready == txn.pc = "idle"

(***************************************************************************)
(* save_match_and_update_aggregates                                        *)
(***************************************************************************)
\* The rows of the connection after the statement at pc.
SaveStatement(pc, work, p) ==
    CASE pc = "insert_match" ->
           [work EXCEPT !.matches = InsertMatch(@, p)]
      [] pc = "players" ->
           [work EXCEPT !.match_players = InsertPlayers(@, p.match_id, p.players)]
      [] pc = "hero_stats" ->
           [work EXCEPT !.hero_stats =
               SaveHeroStats(@, p.radiant_heroes, p.dire_heroes, p.radiant_win)]
      [] pc = "hero_matchups" ->
           [work EXCEPT !.hero_matchups =
               SaveHeroMatchups(@, p.radiant_heroes, p.dire_heroes, p.radiant_win)]
      [] pc = "hero_synergy" ->
           [work EXCEPT !.hero_synergy =
               SaveHeroSynergy(@, p.radiant_heroes, p.dire_heroes, p.radiant_win)]

\* Where the code goes after the statement at pc (work: the rows before it).
\* `if not is_new: return`, the duration filter's `return`, `if players:`.
SaveNextPc(pc, work, p) ==
    CASE pc = "insert_match" ->
           IF ~IsNew(work.matches, p) THEN "commit"
           ELSE IF TooShort(p.duration) THEN "commit"
           ELSE IF p.players # <<>> THEN "players"
           ELSE "hero_stats"
      [] pc = "players"       -> "hero_stats"
      [] pc = "hero_stats"    -> "hero_matchups"
      [] pc = "hero_matchups" -> "hero_synergy"
      [] pc = "hero_synergy"  -> "commit"

RECURSIVE RunSave(_, _, _)
RunSave(pc, work, p) ==
    IF pc = "commit" THEN work
    ELSE RunSave(SaveNextPc(pc, work, p), SaveStatement(pc, work, p), p)

\* The rows after a call that raised nothing, from the committed rows d.
save_match_and_update_aggregates(d, p) ==
    IF Blocked(p) THEN d ELSE RunSave("insert_match", d, p)

\* The call: the hard gate, then the transaction opens.
SaveCall(p) ==
    /\ Ready
    /\ txn' = IF Blocked(p)
              THEN [Idle EXCEPT !.op = "save", !.pc = "returned", !.p = p,
                                !.before = db, !.result = "blocked"]
              ELSE [Idle EXCEPT !.op = "save", !.pc = "insert_match", !.p = p,
                                !.before = db, !.work = db]
    /\ UNCHANGED <<db, loops, limiter, cache, tokens, cleanup, proc, reply, ranked, worker, backfill, main>>

\* The call has raised and the match is still unknown to the store: the
\* worker meets the id again and calls with the same record.
SaveRetry ==
    /\ txn.op = "save" /\ txn.pc = "returned" /\ txn.result = "error"
    /\ txn' = [Idle EXCEPT !.op = "save", !.pc = "insert_match", !.p = txn.p,
                           !.before = db, !.work = db, !.retry = TRUE,
                           !.failed_at = txn.failed_at]
    /\ UNCHANGED <<db, loops, limiter, cache, tokens, cleanup, proc, reply, ranked, worker, backfill, main>>

SaveStep(pc) ==
    /\ LET work == SaveStatement(pc, txn.work, txn.p)
       IN  /\ txn' = [txn EXCEPT !.work = work,
                                 !.pc = SaveNextPc(pc, txn.work, txn.p),
                                 !.is_new = IF pc = "insert_match"
                                            THEN IsNew(txn.work.matches, txn.p)
                                            ELSE @]
           /\ db' = VisibleAfterStatement(db, work)
    /\ UNCHANGED <<loops, limiter, cache, tokens, cleanup, proc, reply, ranked, worker, backfill, main>>

\* INSERT INTO matches ... ON CONFLICT DO NOTHING; is_new; the duration filter.
SaveInsertMatch ==
    /\ txn.op = "save" /\ txn.pc = "insert_match"
    /\ SaveStep("insert_match")

SaveInsertPlayers ==
    /\ txn.op = "save" /\ txn.pc = "players"
    /\ SaveStep("players")

SaveUpdateHeroStats ==
    /\ txn.op = "save" /\ txn.pc = "hero_stats"
    /\ SaveStep("hero_stats")

SaveUpdateHeroMatchups ==
    /\ txn.op = "save" /\ txn.pc = "hero_matchups"
    /\ SaveStep("hero_matchups")

SaveUpdateHeroSynergy ==
    /\ txn.op = "save" /\ txn.pc = "hero_synergy"
    /\ SaveStep("hero_synergy")

(***************************************************************************)
(* delete_matches_and_recalculate, recalculate_all_aggregates              *)
(***************************************************************************)
\* DELETE FROM match_players WHERE match_id = :id
DeletePlayers(tbl, ids) == { r \in tbl : r.match_id \notin ids }

\* Fault: the rows of matches are not deleted.
DeleteNothing(tbl, ids) == tbl

\* DELETE FROM matches WHERE match_id = :id
DeleteMatches(tbl, ids) == { r \in tbl : r.match_id \notin ids }

RebuildStatement(pc, work, ids, acc) ==
    CASE pc = "delete_players" ->
           [work EXCEPT !.match_players = DeletePlayers(@, ids)]
      [] pc = "delete_matches" ->
           [work EXCEPT !.matches = DeleteMatches(@, ids)]
      [] pc = "wipe" ->
           [work EXCEPT !.hero_matchups = {}, !.hero_synergy = {}, !.hero_stats = {}]
      [] pc = "accumulate" -> work
      [] pc = "insert_matchups" ->
           [work EXCEPT !.hero_matchups = BulkInsertPairs(@, acc.matchups)]
      [] pc = "insert_synergy" ->
           [work EXCEPT !.hero_synergy = BulkInsertPairs(@, acc.synergy)]
      [] pc = "insert_stats" ->
           [work EXCEPT !.hero_stats = BulkInsertStats(@, acc.stats)]

RebuildNextPc(pc) ==
    CASE pc = "delete_players"  -> "delete_matches"
      [] pc = "delete_matches"  -> "wipe"
      [] pc = "wipe"            -> "accumulate"
      [] pc = "accumulate"      -> "insert_matchups"
      [] pc = "insert_matchups" -> "insert_synergy"
      [] pc = "insert_synergy"  -> "insert_stats"
      [] pc = "insert_stats"    -> "commit"

RebuildStep(pc) ==
    /\ LET work == RebuildStatement(pc, txn.work, txn.ids, txn.acc)
       IN  /\ txn' = [txn EXCEPT !.work = work,
                                 !.pc = RebuildNextPc(pc),
                                 !.acc = IF pc = "accumulate"
                                         THEN Accumulate(EmptyAcc,
                                                         Remaining(txn.work.matches))
                                         ELSE @]
           /\ db' = VisibleAfterStatement(db, work)
    /\ UNCHANGED <<loops, limiter, cache, tokens, cleanup, proc, reply, ranked, worker, backfill, main>>

\* delete_matches_and_recalculate: `if not match_ids: return`, then the
\* transaction opens.
EvictCall(ids) ==
    /\ Ready
    /\ txn' = IF ids = {}
              THEN [Idle EXCEPT !.op = "evict", !.pc = "returned",
                                !.before = db, !.result = "nothing"]
              ELSE [Idle EXCEPT !.op = "evict", !.pc = "delete_players", !.ids = ids,
                                !.before = db, !.work = db]
    /\ UNCHANGED <<db, loops, limiter, cache, tokens, cleanup, proc, reply, ranked, worker, backfill, main>>

EvictDeletePlayers ==
    /\ txn.op = "evict" /\ txn.pc = "delete_players"
    /\ RebuildStep("delete_players")

EvictDeleteMatches ==
    /\ txn.op = "evict" /\ txn.pc = "delete_matches"
    /\ RebuildStep("delete_matches")

\* recalculate_all_aggregates: the transaction opens.
RecalcCall ==
    /\ Ready
    /\ txn' = [Idle EXCEPT !.op = "recalc", !.pc = "wipe", !.before = db, !.work = db]
    /\ UNCHANGED <<db, loops, limiter, cache, tokens, cleanup, proc, reply, ranked, worker, backfill, main>>

\* DELETE FROM hero_matchups; DELETE FROM hero_synergy; DELETE FROM hero_stats
RebuildWipe ==
    /\ txn.op \in {"evict", "recalc"} /\ txn.pc = "wipe"
    /\ RebuildStep("wipe")

\* The SELECT of the remaining matches and the accumulation in dicts.
RebuildAccumulate ==
    /\ txn.op \in {"evict", "recalc"} /\ txn.pc = "accumulate"
    /\ RebuildStep("accumulate")

\* The three bulk inserts, in the code's order.
RebuildBulkInsert ==
    \E pc \in {"insert_matchups", "insert_synergy", "insert_stats"} :
        /\ txn.op \in {"evict", "recalc"} /\ txn.pc = pc
        /\ RebuildStep(pc)

\* Leaving the `with` block: commit.
TxnCommit ==
    /\ txn.pc = "commit"
    /\ db' = VisibleAfterCommit(db, txn.work)
    /\ txn' = [txn EXCEPT !.pc = "returned", !.result = "ok",
                          !.work = EmptyDb, !.acc = EmptyAcc]
    /\ UNCHANGED <<loops, limiter, cache, tokens, cleanup, proc, reply, ranked, worker, backfill, main>>

\* A statement (or the commit) raises: rollback, the caller sees the error.
\* failed_at: the statement that raised (kept through a retry).
TxnFail ==
    /\ txn.pc \in InTxn
    /\ db' = VisibleAfterRollback(db, txn.work)
    /\ txn' = [txn EXCEPT !.pc = "returned", !.result = "error",
                          !.failed_at = txn.pc,
                          !.work = EmptyDb, !.acc = EmptyAcc]
    /\ UNCHANGED <<loops, limiter, cache, tokens, cleanup, proc, reply, ranked, worker, backfill, main>>

\* The caller has the outcome and goes on.
Return ==
    /\ txn.pc = "returned"
    /\ txn' = Idle
    /\ UNCHANGED <<db, loops, limiter, cache, tokens, cleanup, proc, reply, ranked, worker, backfill, main>>

(***************************************************************************)
(* The worker (stats_updater.py): the listing loop of main() and            *)
(* explorer_loop() are two tasks of one asyncio thread.  A task runs until *)
(* it awaits: the rate limiter, the HTTP answer, the sleep.  Everything    *)
(* between two awaits, a whole save included, is one step.                 *)
(***************************************************************************)
LoopNames == {"publicMatches", "explorer"}

\* A list of ids as the provider orders it: most recent first.
RECURSIVE Descending(_)
Descending(S) ==
    IF S = {} THEN <<>>
    ELSE LET m == CHOOSE x \in S : \A y \in S : y <= x
         IN  <<m>> \o Descending(S \ {m})

\* What GET /matches/{id} answers to the worker.
LoopDetailsFor(id) ==
    { Detail(id, FirstLineup, TRUE, MIN_MATCH_DURATION_SECONDS, 22, 7),
      Detail(id, Lineup(<<1, 4, 6, 8, 10>>, <<2, 3, 5, 7, 9>>), FALSE,
             MIN_MATCH_DURATION_SECONDS, 22, 7),
      Detail(id, FirstLineup, TRUE, MIN_MATCH_DURATION_SECONDS - 1, 22, 7),
      Detail(id, FirstLineup, TRUE, MIN_MATCH_DURATION_SECONDS, 23, 7),
      Detail(id, Lineup(<<1, 2, 3, 4>>, <<6, 7, 8, 9, 10>>), TRUE,
             MIN_MATCH_DURATION_SECONDS, 22, 7) }

\* process_single_match: `if parsed is None` and the mode filter.
Skipped(parsed) ==
    \/ parsed = NoRecord
    \/ parsed.game_mode = NULL
    \/ parsed.lobby_type = NULL
    \/ <<parsed.game_mode, parsed.lobby_type>> \notin ALLOWED_GAME_MODE_PAIRS

\* saved: the id of the last `saved += 1` of the cycle, 0 before the first.
NoLoops == [l \in LoopNames |-> [pc |-> "off", ids |-> <<>>, saved |-> 0]]

\* The cycle is over: sleep, then the next list of ids arrives (none when
\* the request fails).
LoopListIds(l) ==
    /\ loops[l].pc = "for" /\ loops[l].ids = <<>>
    /\ \E S \in SUBSET MatchIds :
           loops' = [loops EXCEPT ![l] = [pc |-> "for", ids |-> Descending(S),
                                         saved |-> 0]]
    /\ UNCHANGED <<storeVars, limiter, cache, tokens, cleanup, proc, reply, ranked, worker, backfill, main>>

\* if match_exists(match_id): skip_existing += 1; continue
LoopSkipExisting(l) ==
    /\ loops[l].pc = "for" /\ loops[l].ids # <<>>
    /\ match_exists(db, Head(loops[l].ids))
    /\ loops' = [loops EXCEPT ![l].ids = Tail(@)]
    /\ UNCHANGED <<storeVars, limiter, cache, tokens, cleanup, proc, reply, ranked, worker, backfill, main>>

\* match_exists is false: process_single_match is entered and awaits the
\* rate limiter.
LoopTake(l) ==
    /\ loops[l].pc = "for" /\ loops[l].ids # <<>>
    /\ ~match_exists(db, Head(loops[l].ids))
    /\ loops' = [loops EXCEPT ![l].pc = "acquire"]
    /\ UNCHANGED <<storeVars, limiter, cache, tokens, cleanup, proc, reply, ranked, worker, backfill, main>>

\* The rate limiter lets the task through; the request is sent and awaited.
LoopAcquire(l) ==
    /\ loops[l].pc = "acquire"
    /\ loops' = [loops EXCEPT ![l].pc = "fetching"]
    /\ UNCHANGED <<storeVars, limiter, cache, tokens, cleanup, proc, reply, ranked, worker, backfill, main>>

\* get_match_details raises: return False.
LoopHttpError(l) ==
    /\ loops[l].pc = "fetching"
    /\ loops' = [loops EXCEPT ![l].pc = "for", ![l].ids = Tail(@)]
    /\ UNCHANGED <<storeVars, limiter, cache, tokens, cleanup, proc, reply, ranked, worker, backfill, main>>

\* The answer arrives: parse, filter, save and commit, `saved += 1`.
LoopProcess(l) ==
    /\ loops[l].pc = "fetching"
    /\ \E details \in LoopDetailsFor(Head(loops[l].ids)) :
           LET parsed == _parse_match_details(details)
           IN  IF Skipped(parsed)
               THEN /\ loops' = [loops EXCEPT ![l].pc = "for", ![l].ids = Tail(@)]
                    /\ UNCHANGED <<storeVars, limiter, cache, tokens, cleanup, proc, reply, ranked, worker, backfill, main>>
               ELSE /\ db' = VisibleAfterCommit(
                                 db, save_match_and_update_aggregates(db, parsed))
                    /\ loops' = [loops EXCEPT ![l].pc = "for", ![l].ids = Tail(@),
                                              ![l].saved = parsed.match_id]
                    /\ UNCHANGED <<txn, limiter, cache, tokens, cleanup, proc, reply, ranked, worker, backfill, main>>

\* The answer arrives and the save raises after its first statement:
\* rollback, return False.
LoopSaveRaises(l) ==
    /\ loops[l].pc = "fetching"
    /\ \E details \in LoopDetailsFor(Head(loops[l].ids)) :
           LET parsed == _parse_match_details(details)
           IN  /\ ~Skipped(parsed)
               /\ db' = VisibleAfterRollback(
                            db, SaveStatement("insert_match", db, parsed))
    /\ loops' = [loops EXCEPT ![l].pc = "for", ![l].ids = Tail(@)]
    /\ UNCHANGED <<txn, limiter, cache, tokens, cleanup, proc, reply, ranked, worker, backfill, main>>

(***************************************************************************)
(* RateLimiter (stats_updater.py): the one instance _rate_limiter, shared  *)
(* by the tasks of the worker.  The monotonic clock counts ticks;          *)
(* TicksPerMinute of them are 60 seconds.  A task leaves the thread to     *)
(* another only at an await: inside acquire() that is asyncio.sleep.       *)
(***************************************************************************)
TicksPerMinute == 4

MAX_REQUESTS_PER_MINUTE == 2

MaxTime == 6

\* self._min_delay = 60.0 / max(max_per_minute, 1)
_min_delay == TicksPerMinute \div Max(MAX_REQUESTS_PER_MINUTE, 1)

\* The provider calls of a task: main() runs fetch_and_process_matches and
\* backfill_match_player_stats, the other task is explorer_loop; both go
\* through process_single_match.
ProviderCalls(l) ==
    IF l = "publicMatches"
    THEN {"get_public_matches", "get_match_details", "backfill"}
    ELSE {"get_explorer_match_ids", "get_match_details"}

\* self._last_call = 0.0; no task, no call made.
NoLimiter ==
    [now |-> 0, _last_call |-> 0,
     task |-> [l \in LoopNames |-> [pc |-> "off", api |-> "none", wake |-> 0]],
     calls |-> <<>>]

\* acquire() returns to task l at limiter.now, and the provider call the task
\* asked the permit for goes out: there is no await between the two.
Acquired(l) ==
    [limiter EXCEPT !._last_call = limiter.now,
                    !.task[l].pc = "awaiting",
                    !.calls = Append(@, [task |-> l, api |-> limiter.task[l].api,
                                         at |-> limiter.now])]

\* await _rate_limiter.acquire(), up to its await or, without one, its end:
\* elapsed = time.monotonic() - self._last_call; if elapsed < self._min_delay:
\* await asyncio.sleep(self._min_delay - elapsed).
Acquire(l, api) ==
    /\ limiter.task[l].pc = "ready"
    /\ LET elapsed == limiter.now - limiter._last_call
           asked   == [limiter EXCEPT !.task[l].api = api]
       IN  limiter' =
               IF elapsed < _min_delay
               THEN [asked EXCEPT !.task[l].pc = "sleeping",
                                  !.task[l].wake = limiter.now + (_min_delay - elapsed)]
               ELSE [asked EXCEPT !._last_call = limiter.now,
                                  !.task[l].pc = "awaiting",
                                  !.calls = Append(@, [task |-> l, api |-> api,
                                                       at |-> limiter.now])]
    /\ UNCHANGED <<db, txn, loops, cache, tokens, cleanup, proc, reply, ranked, worker, backfill, main>>

\* The sleep is over (not before its time, possibly after it):
\* self._last_call = time.monotonic().
AcquireWake(l) ==
    /\ limiter.task[l].pc = "sleeping"
    /\ limiter.now >= limiter.task[l].wake
    /\ limiter' = Acquired(l)
    /\ UNCHANGED <<db, txn, loops, cache, tokens, cleanup, proc, reply, ranked, worker, backfill, main>>

\* The provider has answered, or the call has raised: the task goes on to
\* its next acquire().
CallReturns(l) ==
    /\ limiter.task[l].pc = "awaiting"
    /\ limiter' = [limiter EXCEPT !.task[l].pc = "ready"]
    /\ UNCHANGED <<db, txn, loops, cache, tokens, cleanup, proc, reply, ranked, worker, backfill, main>>

\* time.monotonic() advances.
ClockTick ==
    /\ limiter.now < MaxTime
    /\ limiter' = [limiter EXCEPT !.now = @ + 1]
    /\ UNCHANGED <<db, txn, loops, cache, tokens, cleanup, proc, reply, ranked, worker, backfill, main>>

(***************************************************************************)
(* The hero-matchups cache (db.py, hero_matchups_service.py).  The API and *)
(* the bot are two processes on one database; each call of                 *)
(* get_hero_matchups_cached is a request.  cache.rows holds the committed  *)
(* rows of hero_matchups_cache: what a session of another process reads.   *)
(* The database is the default one, SQLite in WAL mode (database.py): one  *)
(* write transaction at a time, readers on the last commit.  The clock     *)
(* counts hours.  The surrogate key id of a row is left out: nothing reads *)
(* it.                                                                     *)
(***************************************************************************)
CACHE_TTL_HOURS == 1

MaxHours == 1

Requests == {"api", "bot"}

CachedHeroes == {1, 2}

\* None where a string is expected.
NoDate == <<>>

\* datetime.utcnow().isoformat(): text of fixed width, here the two digits of
\* the hour.
isoformat(t) == <<t \div 10, t % 10>>

\* datetime.fromisoformat(s)
fromisoformat(s) == s[1] * 10 + s[2]

\* a < b on strings: by the first character that differs.
StrLess(a, b) == a[1] < b[1] \/ (a[1] = b[1] /\ a[2] < b[2])

\* max(r.updated_at for r in rows): the greatest string.
StrMax(S) == CHOOSE a \in S : \A b \in S : ~StrLess(a, b)

\* round(wins / games, 4), in ten-thousandths.
Round4(wins, games) == (2 * wins * 10000 + games) \div (2 * games)

\* An element of the provider's answer; NULL: the key is missing.
Entry(hero_id, games_played, wins) ==
    [hero_id |-> hero_id, games_played |-> games_played, wins |-> wins]

\* Answers of GET /heroes/{hero_id}/matchups: no opponent, one, two with an
\* element without hero_id and one without games between them, the same
\* opponent twice.
Responses ==
    { <<>>,
      <<Entry(3, 4, 3)>>,
      <<Entry(4, 3, 1), Entry(NULL, 5, 1), Entry(4, 0, 0), Entry(3, 2, 2)>>,
      <<Entry(3, 4, 3), Entry(3, 4, 3)>> }

\* for entry in api_data: if not opponent_id or games == 0: continue;
\* to_cache.append({...})
RECURSIVE ToCache(_, _)
ToCache(api_data, now_iso) ==
    IF api_data = <<>> THEN <<>>
    ELSE LET entry == Head(api_data)
         IN  IF entry.hero_id = NULL \/ entry.hero_id = 0 \/ entry.games_played = 0
             THEN ToCache(Tail(api_data), now_iso)
             ELSE <<[opponent_hero_id |-> entry.hero_id,
                     games      |-> entry.games_played,
                     wins       |-> entry.wins,
                     winrate    |-> Round4(entry.wins, entry.games_played),
                     updated_at |-> now_iso]>>
                  \o ToCache(Tail(api_data), now_iso)

\* session.query(HeroMatchupsCache).filter(hero_id == :hero_id).all()
RowsOfHero(rows, hero_id) == { r \in rows : r.hero_id = hero_id }

\* get_hero_matchups_from_cache: the dicts of the hero's rows (a list in no
\* particular order) and the greatest updated_at, None without rows.
get_hero_matchups_from_cache(rows, hero_id) ==
    LET found == RowsOfHero(rows, hero_id)
    IN  [cached |-> { [opponent_hero_id |-> r.opponent_hero_id, games |-> r.games,
                       wins |-> r.wins, winrate |-> r.winrate,
                       updated_at |-> r.updated_at] : r \in found },
         last_updated |-> IF found = {} THEN NoDate
                          ELSE StrMax({ r.updated_at : r \in found })]

\* Fault: a cache of exactly the TTL's age still counts as fresh.
FreshAtTTL(last_updated, now) ==
    last_updated # NoDate /\ now - fromisoformat(last_updated) <= CACHE_TTL_HOURS

\* (datetime.utcnow() - last_updated_dt) < timedelta(hours=CACHE_TTL_HOURS)
cache_is_fresh(last_updated, now) ==
    last_updated # NoDate /\ now - fromisoformat(last_updated) < CACHE_TTL_HOURS

\* sorted(matchups, key=winrate, reverse=True): the sort is stable and the
\* rows come in no particular order, so equal winrates may come either way.
SortedByWinrate(S) ==
    { s \in [1..Cardinality(S) -> S] :
        /\ \A i, j \in 1..Cardinality(S) : i < j => s[i] # s[j] /\ s[i].winrate >= s[j].winrate }

\* Fault: no stale fallback.
NeverFallback(cached) == FALSE

\* except Exception: if cached: return sorted(cached) else raise
StaleFallback(cached) == cached # {}

\* Fault: the DELETE of the replacement removes nothing.
DeleteNone(rows, hero_id) == rows

\* session.query(HeroMatchupsCache).filter(hero_id == :hero_id).delete()
DeleteHero(rows, hero_id) == rows \ RowsOfHero(rows, hero_id)

\* for m in matchups: session.add(HeroMatchupsCache(hero_id, ..., updated_at))
AddRows(rows, hero_id, matchups, updated_at) ==
    rows \cup { [hero_id |-> hero_id,
                 opponent_hero_id |-> matchups[i].opponent_hero_id,
                 games |-> matchups[i].games, wins |-> matchups[i].wins,
                 winrate |-> matchups[i].winrate,
                 updated_at |-> updated_at] : i \in DOMAIN matchups }

\* uq_hero_matchups_cache_pair: two of the rows to insert have one opponent.
UniqueViolation(matchups) ==
    \E i, j \in DOMAIN matchups :
        i < j /\ matchups[i].opponent_hero_id = matchups[j].opponent_hero_id

\* Fault: the statements of a session are seen by the others at once.
SeenUncommitted(committed, work) == work

\* What the sessions of other processes read while a session has written
\* work and not committed.
SeenByOthers(committed, work) == committed

\* Insert x behind the elements of s that are not smaller: s stays descending
\* and equal elements keep their order.
RECURSIVE InsertDescending(_, _)
InsertDescending(s, x) ==
    IF s = <<>> THEN <<x>>
    ELSE IF Head(s).winrate >= x.winrate
         THEN <<Head(s)>> \o InsertDescending(Tail(s), x)
         ELSE <<x>> \o s

\* sorted(to_cache, key=winrate, reverse=True) on a list.
RECURSIVE SortedList(_)
SortedList(matchups) ==
    IF matchups = <<>> THEN <<>>
    ELSE InsertDescending(SortedList(SubSeq(matchups, 1, Len(matchups) - 1)),
                          matchups[Len(matchups)])

\* A request: pc its position, cached, last_updated and read_at what it read
\* and when, called whether it has called the provider, api_data the answer,
\* to_cache and now_iso what it derived from it, pre the committed rows when its
\* transaction began, work the rows of its session, result and ret how it
\* ended and what it returned.  A local the code reads no more is reset.
IdleRequest ==
    [pc |-> "idle", hero_id |-> 0, cached |-> {}, last_updated |-> NoDate,
     read_at |-> 0, called |-> FALSE, api_data |-> <<>>, to_cache |-> <<>>,
     now_iso |-> NoDate,
     pre |-> {}, work |-> {}, result |-> "none", ret |-> <<>>]

NoCache == [rows |-> {}, now |-> 0, req |-> [r \in Requests |-> IdleRequest]]

\* The request after the read of get_hero_matchups_cached(hero_id).
AfterRead(hero_id) ==
    LET read == get_hero_matchups_from_cache(cache.rows, hero_id)
    IN  [IdleRequest EXCEPT !.hero_id = hero_id, !.cached = read.cached,
                            !.last_updated = read.last_updated,
                            !.read_at = cache.now]

\* if cache_is_fresh and cached: return sorted(cached, ...)
CacheHit(r, hero_id) ==
    /\ cache.req[r].pc = "idle"
    /\ LET q == AfterRead(hero_id)
       IN  /\ cache_is_fresh(q.last_updated, cache.now) /\ q.cached # {}
           /\ \E ret \in SortedByWinrate(q.cached) :
                  cache' = [cache EXCEPT !.req[r] =
                               [q EXCEPT !.pc = "returned", !.result = "hit",
                                         !.ret = ret]]
    /\ UNCHANGED <<db, txn, loops, limiter, tokens, cleanup, proc, reply, ranked, worker, backfill, main>>

\* Otherwise: api_data = await fetch_from_api(hero_id)
CacheMiss(r, hero_id) ==
    /\ cache.req[r].pc = "idle"
    /\ LET q == AfterRead(hero_id)
       IN  /\ ~(cache_is_fresh(q.last_updated, cache.now) /\ q.cached # {})
           /\ cache' = [cache EXCEPT !.req[r] =
                           [q EXCEPT !.pc = "fetching", !.called = TRUE]]
    /\ UNCHANGED <<db, txn, loops, limiter, tokens, cleanup, proc, reply, ranked, worker, backfill, main>>

\* The provider call raised: the stale rows if there are any, else the error.
ProviderRaises(r) ==
    /\ cache.req[r].pc = "fetching"
    /\ IF StaleFallback(cache.req[r].cached)
       THEN \E ret \in SortedByWinrate(cache.req[r].cached) :
                cache' = [cache EXCEPT !.req[r].pc = "returned",
                                       !.req[r].result = "stale",
                                       !.req[r].ret = ret]
       ELSE cache' = [cache EXCEPT !.req[r].pc = "returned",
                                   !.req[r].result = "provider_error"]
    /\ UNCHANGED <<db, txn, loops, limiter, tokens, cleanup, proc, reply, ranked, worker, backfill, main>>

\* The provider answered: now_iso, to_cache, and the call of
\* replace_hero_matchups_in_cache.
ProviderAnswers(r, api_data) ==
    /\ cache.req[r].pc = "fetching"
    /\ cache' = [cache EXCEPT !.req[r] =
                    [IdleRequest EXCEPT
                        !.pc = "delete", !.hero_id = cache.req[r].hero_id,
                        !.called = TRUE, !.api_data = api_data,
                        !.now_iso = isoformat(cache.now),
                        !.to_cache = ToCache(api_data, isoformat(cache.now))]]
    /\ UNCHANGED <<db, txn, loops, limiter, tokens, cleanup, proc, reply, ranked, worker, backfill, main>>

\* The DELETE opens the write transaction of the session; it waits while
\* another session holds one.
ReplaceDelete(r) ==
    /\ cache.req[r].pc = "delete"
    /\ \A o \in Requests \ {r} : cache.req[o].pc \notin {"insert", "commit"}
    /\ LET work == DeleteHero(cache.rows, cache.req[r].hero_id)
       IN  cache' = [cache EXCEPT !.req[r].pc = "insert",
                                  !.req[r].pre = cache.rows,
                                  !.req[r].work = work,
                                  !.rows = SeenByOthers(cache.rows, work)]
    /\ UNCHANGED <<db, txn, loops, limiter, tokens, cleanup, proc, reply, ranked, worker, backfill, main>>

\* The session.add loop.
ReplaceAdd(r) ==
    /\ cache.req[r].pc = "insert"
    /\ LET work == AddRows(cache.req[r].work, cache.req[r].hero_id,
                           cache.req[r].to_cache, cache.req[r].now_iso)
       IN  cache' = [cache EXCEPT !.req[r].pc = "commit",
                                  !.req[r].work = work,
                                  !.rows = SeenByOthers(cache.rows, work)]
    /\ UNCHANGED <<db, txn, loops, limiter, tokens, cleanup, proc, reply, ranked, worker, backfill, main>>

\* session.commit(), then return sorted(to_cache, ...)
ReplaceCommit(r) ==
    /\ cache.req[r].pc = "commit"
    /\ ~UniqueViolation(cache.req[r].to_cache)
    /\ cache' = [cache EXCEPT !.req[r].pc = "returned",
                              !.req[r].result = "miss",
                              !.req[r].ret = SortedList(cache.req[r].to_cache),
                              !.req[r].pre = {},
                              !.req[r].work = {},
                              !.rows = cache.req[r].work]
    /\ UNCHANGED <<db, txn, loops, limiter, tokens, cleanup, proc, reply, ranked, worker, backfill, main>>

\* A statement of the replacement raises (the lock is not granted in time, the
\* unique constraint is violated at the flush, the connection is lost): the
\* session closes without a commit and the exception leaves
\* get_hero_matchups_cached.
ReplaceRaises(r) ==
    /\ cache.req[r].pc \in {"delete", "insert", "commit"}
    /\ cache' = [cache EXCEPT !.req[r].pc = "returned",
                              !.req[r].result = "db_error",
                              !.req[r].pre = {},
                              !.req[r].work = {},
                              !.rows = IF cache.req[r].pc = "delete" THEN @
                                       ELSE cache.req[r].pre]
    /\ UNCHANGED <<db, txn, loops, limiter, tokens, cleanup, proc, reply, ranked, worker, backfill, main>>

\* The caller has its answer; the process takes the next request.
RequestDone(r) ==
    /\ cache.req[r].pc = "returned"
    /\ cache' = [cache EXCEPT !.req[r] = IdleRequest]
    /\ UNCHANGED <<db, txn, loops, limiter, tokens, cleanup, proc, reply, ranked, worker, backfill, main>>

\* datetime.utcnow() advances.
HourPasses ==
    /\ cache.now < MaxHours
    /\ cache' = [cache EXCEPT !.now = @ + 1]
    /\ UNCHANGED <<db, txn, loops, limiter, tokens, cleanup, proc, reply, ranked, worker, backfill, main>>

(***************************************************************************)
(* Tokens (db.py).  tokens.rows holds the rows of the table tokens; the    *)
(* clock counts hours.  issued remembers, for each token string, the last  *)
(* create_token_for_user that produced it; last is the last call and what  *)
(* it returned.  delete_token has no caller and is left out.               *)
(***************************************************************************)
TokenHours == 2

MaxTokenTime == 4

\* Values of secrets.token_urlsafe(16).
TokenStrings == {"k1", "k2"}

UserIds == {7, 8}

\* Fault: the expiry is set an hour late.
ExpiresLate(now) == now + TokenHours + 1

\* expires_at = datetime.utcnow() + timedelta(hours=24), the 24 hours being
\* TokenHours here.
ExpiresAt(now) == now + TokenHours

\* session.merge(token_obj): insert, or replace the row with this primary key.
Merge(rows, token_obj) ==
    { r \in rows : r.token # token_obj.token } \cup {token_obj}

\* session.get(Token, token): the set of at most one row.
Get(rows, token) == { r \in rows : r.token = token }

\* Fault: no token counts as expired.
NeverExpired(expires_at, now) == FALSE

\* token_obj.expires_at < datetime.utcnow()
Expired(expires_at, now) == expires_at < now

\* get_user_id_by_token: the rows after the call and the value returned.
get_user_id_by_token(rows, token, now) ==
    LET found == Get(rows, token)
    IN  IF found = {} THEN [rows |-> rows, result |-> NULL]
        ELSE LET token_obj == CHOOSE r \in found : TRUE
             IN  IF Expired(token_obj.expires_at, now)
                 THEN [rows |-> rows \ {token_obj}, result |-> NULL]
                 ELSE [rows |-> rows, result |-> token_obj.user_id]

NoTokens ==
    [rows |-> {}, now |-> 0, issued |-> {},
     last |-> [op |-> "none", token |-> "", at |-> 0, result |-> NULL]]

\* create_token_for_user(user_id), the random string being token_str.
CreateToken(user_id, token_str) ==
    /\ tokens' = [tokens EXCEPT
                     !.rows = Merge(@, [token |-> token_str, user_id |-> user_id,
                                        expires_at |-> ExpiresAt(tokens.now)]),
                     !.issued = { i \in @ : i.token # token_str }
                                \cup {[token |-> token_str, user_id |-> user_id,
                                       at |-> tokens.now]},
                     !.last = [op |-> "create", token |-> token_str,
                               at |-> tokens.now, result |-> user_id]]
    /\ UNCHANGED <<db, txn, loops, limiter, cache, cleanup, proc, reply, ranked, worker, backfill, main>>

\* get_user_id_by_token(token)
ResolveToken(token) ==
    /\ LET out == get_user_id_by_token(tokens.rows, token, tokens.now)
       IN  tokens' = [tokens EXCEPT
                         !.rows = out.rows,
                         !.last = [op |-> "resolve", token |-> token,
                                   at |-> tokens.now, result |-> out.result]]
    /\ UNCHANGED <<db, txn, loops, limiter, cache, cleanup, proc, reply, ranked, worker, backfill, main>>

\* datetime.utcnow() advances.
TokenHourPasses ==
    /\ tokens.now < MaxTokenTime
    /\ tokens' = [tokens EXCEPT !.now = @ + 1]
    /\ UNCHANGED <<db, txn, loops, limiter, cache, cleanup, proc, reply, ranked, worker, backfill, main>>

(***************************************************************************)
(* run_cleanup (stats_updater.py) with get_old_match_ids,                  *)
(* get_matches_count and get_oldest_match_ids (stats_db.py).  run_cleanup  *)
(* has no await: no other task of the worker runs inside it.  Its calls of *)
(* delete_matches_and_recalculate are the transaction steps of the store.  *)
(* cleanup: pc the position, now the reading of time.time(), before the    *)
(* store when it started, mid the store when it counted, old_ids and       *)
(* excess_ids what the two phases asked to delete.                         *)
(***************************************************************************)
DAYS_TO_KEEP == 90

SecondsPerDay == 86400

MAX_MATCHES == 1

\* Readings of time.time(): the cutoff falls before, between and after the
\* start times of the matches.
Nows == { DAYS_TO_KEEP * SecondsPerDay + c : c \in 0..(MaxMatchId + 1) }

\* Fault: the retention period is not subtracted.
CutoffIsNow(now) == now

\* cutoff = int(time.time()) - older_than_days * 86400
Cutoff(now) == now - DAYS_TO_KEEP * SecondsPerDay

\* Fault: a match that started at the cutoff counts as old.
OldOrAtCutoff(matches, now) ==
    { r.match_id : r \in { x \in matches : x.start_time <= Cutoff(now) } }

\* SELECT match_id FROM matches WHERE start_time < :cutoff
get_old_match_ids(matches, now) ==
    { r.match_id : r \in { x \in matches : x.start_time < Cutoff(now) } }

\* SELECT COUNT(*) FROM matches
get_matches_count(matches) == Cardinality(matches)

\* Fault: one match too few is trimmed.
ExcessLessOne(count_after) == count_after - MAX_MATCHES - 1

\* excess = count_after - MAX_MATCHES
Excess(count_after) == count_after - MAX_MATCHES

\* SELECT match_id FROM matches ORDER BY start_time ASC LIMIT :n: the answers
\* the database may give (equal start times come in any order).
get_oldest_match_ids(matches, n) ==
    { { r.match_id : r \in S } :
        S \in { T \in SUBSET matches :
                  /\ Cardinality(T) = Min(Max(n, 0), Cardinality(matches))
                  /\ \A r \in T : \A q \in matches \ T : r.start_time <= q.start_time } }

NoCleanup ==
    [pc |-> "idle", now |-> 0, before |-> EmptyDb, mid |-> EmptyDb,
     old_ids |-> {}, excess_ids |-> {}]

\* The call delete_matches_and_recalculate(ids), ids not empty: the
\* transaction opens.
EvictBegins(ids) ==
    [Idle EXCEPT !.op = "evict", !.pc = "delete_players", !.ids = ids,
                 !.before = db, !.work = db]

\* Step 1: old_ids = get_old_match_ids(DAYS_TO_KEEP); if old_ids:
\* delete_matches_and_recalculate(old_ids)
CleanupAge(now) ==
    /\ cleanup.pc = "idle" /\ Ready
    /\ now >= cleanup.now
    /\ LET old_ids == get_old_match_ids(db.matches, now)
       IN  /\ cleanup' = [NoCleanup EXCEPT
                             !.pc = IF old_ids # {} THEN "age_evict" ELSE "count",
                             !.now = now, !.before = db, !.old_ids = old_ids]
           /\ txn' = IF old_ids # {} THEN EvictBegins(old_ids) ELSE txn
    /\ UNCHANGED <<db, loops, limiter, cache, tokens, proc, reply, ranked, worker, backfill, main>>

\* delete_matches_and_recalculate(old_ids) has returned.
CleanupAgeDone ==
    /\ cleanup.pc = "age_evict"
    /\ txn.pc = "returned" /\ txn.result = "ok"
    /\ cleanup' = [cleanup EXCEPT !.pc = "count"]
    /\ txn' = Idle
    /\ UNCHANGED <<db, loops, limiter, cache, tokens, proc, reply, ranked, worker, backfill, main>>

\* Step 2: count_after = get_matches_count(); if count_after > MAX_MATCHES:
\* delete_matches_and_recalculate(get_oldest_match_ids(excess))
CleanupCount ==
    /\ cleanup.pc = "count"
    /\ LET count_after == get_matches_count(db.matches)
       IN  IF count_after > MAX_MATCHES
           THEN \E excess_ids \in get_oldest_match_ids(db.matches, Excess(count_after)) :
                    /\ cleanup' = [cleanup EXCEPT
                                      !.pc = IF excess_ids # {} THEN "size_evict"
                                             ELSE "done",
                                      !.mid = db, !.excess_ids = excess_ids]
                    /\ txn' = IF excess_ids # {} THEN EvictBegins(excess_ids) ELSE txn
           ELSE /\ cleanup' = [cleanup EXCEPT !.pc = "done", !.mid = db]
                /\ txn' = txn
    /\ UNCHANGED <<db, loops, limiter, cache, tokens, proc, reply, ranked, worker, backfill, main>>

\* delete_matches_and_recalculate(excess_ids) has returned.
CleanupSizeDone ==
    /\ cleanup.pc = "size_evict"
    /\ txn.pc = "returned" /\ txn.result = "ok"
    /\ cleanup' = [cleanup EXCEPT !.pc = "done"]
    /\ txn' = Idle
    /\ UNCHANGED <<db, loops, limiter, cache, tokens, proc, reply, ranked, worker, backfill, main>>

\* delete_matches_and_recalculate has raised: the exception leaves
\* run_cleanup (main logs it).
CleanupRaises ==
    /\ cleanup.pc \in {"age_evict", "size_evict"}
    /\ txn.pc = "returned" /\ txn.result = "error"
    /\ cleanup' = [cleanup EXCEPT !.pc = "raised"]
    /\ txn' = Idle
    /\ UNCHANGED <<db, loops, limiter, cache, tokens, proc, reply, ranked, worker, backfill, main>>

\* run_cleanup is over; main calls it again after CLEANUP_INTERVAL_HOURS.
CleanupReturns ==
    /\ cleanup.pc \in {"done", "raised"}
    /\ cleanup' = [NoCleanup EXCEPT !.now = cleanup.now]
    /\ UNCHANGED <<db, txn, loops, limiter, cache, tokens, proc, reply, ranked, worker, backfill, main>>

(***************************************************************************)
(* process_single_match (stats_updater.py) over every answer of the        *)
(* provider, the malformed ones included.  From the answer to the return   *)
(* there is no await: parse, filter and save are one step.                 *)
(* proc: details the answer, parsed what the parser returned, before the   *)
(* store at the call, result what process_single_match returned.           *)
(***************************************************************************)
\* Malformed answers besides BadLineups: a player without hero_id, a player
\* without player_slot, a 4+6 split, eleven players.
NullLineups ==
    { Lineup(<<1, 2, 3, 4, NULL>>, <<6, 7, 8, 9, 10>>),
      [i \in 1..10 |-> IF i = 5 THEN [hero_id |-> 5, player_slot |-> NULL]
                       ELSE FirstLineup[i]],
      Lineup(<<1, 2, 3, 4>>, <<5, 6, 7, 8, 9, 10>>),
      Lineup(<<1, 2, 3, 4, 5>>, <<6, 7, 8, 9, 10, 11>>) }

ProcDetailsFor(id) ==
    DetailsFor(id)
    \cup { Detail(id, l, TRUE, MIN_MATCH_DURATION_SECONDS, 22, 7) : l \in NullLineups }

NoProc ==
    [pc |-> "idle", details |-> NoRecord, parsed |-> NoRecord, before |-> EmptyDb,
     result |-> FALSE]

\* The caller found match_exists(match_id) false.  details = await
\* get_match_details(match_id) answers; _parse_match_details; the mode
\* filter; save_match_and_update_aggregates(**parsed); return.
ProcessAnswer(id) ==
    /\ proc.pc = "idle" /\ ~match_exists(db, id)
    /\ \E details \in ProcDetailsFor(id) :
           LET parsed == _parse_match_details(details)
           IN  IF Skipped(parsed)
               THEN /\ proc' = [pc |-> "returned", details |-> details,
                                parsed |-> parsed, before |-> db, result |-> FALSE]
                    /\ db' = db
               ELSE /\ proc' = [pc |-> "returned", details |-> details,
                                parsed |-> parsed, before |-> db, result |-> TRUE]
                    /\ db' = VisibleAfterCommit(
                                 db, save_match_and_update_aggregates(db, parsed))
    /\ UNCHANGED <<txn, loops, limiter, cache, tokens, cleanup, reply, ranked, worker, backfill, main>>

\* The save raises after its first statement: rollback, return False.
ProcessSaveRaises(id) ==
    /\ proc.pc = "idle" /\ ~match_exists(db, id)
    /\ \E details \in ProcDetailsFor(id) :
           LET parsed == _parse_match_details(details)
           IN  /\ ~Skipped(parsed)
               /\ proc' = [pc |-> "returned", details |-> details,
                           parsed |-> parsed, before |-> db, result |-> FALSE]
               /\ db' = VisibleAfterRollback(
                            db, SaveStatement("insert_match", db, parsed))
    /\ UNCHANGED <<txn, loops, limiter, cache, tokens, cleanup, reply, ranked, worker, backfill, main>>

\* The caller goes on to its next id.
ProcessNext ==
    /\ proc.pc = "returned"
    /\ proc' = NoProc
    /\ UNCHANGED <<db, txn, loops, limiter, cache, tokens, cleanup, reply, ranked, worker, backfill, main>>

(***************************************************************************)
(* The two ingestion loops with their failures and their cycles, for the   *)
(* progress of the worker.  Each loop is a task of the event loop, which   *)
(* runs every task that is ready; every await of a loop ends: the HTTP     *)
(* client has a timeout (opendota_client.py), asyncio.sleep returns.  So a *)
(* loop that can step does step (weak fairness per loop).                  *)
(* loops[l]: pc and ids as above, cycle the parity of the number of cycles *)
(* started, failed the failure of the last step ("none" after a step that  *)
(* did not fail).                                                          *)
(***************************************************************************)
\* Ids handled in one cycle (MAX_MATCHES_PER_CYCLE, LIMIT of the query).
CycleLen == 1

Listings == { S \in SUBSET MatchIds : Cardinality(S) <= CycleLen }

\* What GET /matches/{id} answers here: a match that is saved, one in a mode
\* outside the allow-list, one the parser refuses.
LiveDetailsFor(id) ==
    { Detail(id, FirstLineup, TRUE, MIN_MATCH_DURATION_SECONDS, 22, 7),
      Detail(id, FirstLineup, TRUE, MIN_MATCH_DURATION_SECONDS, 23, 7),
      Detail(id, Lineup(<<1, 2, 3, 4>>, <<6, 7, 8, 9, 10>>), TRUE,
             MIN_MATCH_DURATION_SECONDS, 22, 7) }

\* Fault: an exception that leaves the cycle ends the task.
Uncaught(task, failure) == [task EXCEPT !.pc = "dead", !.failed = failure]

\* except Exception in main() around fetch_and_process_matches and in
\* explorer_loop around the cycle: the error is logged, the rest of the
\* cycle is dropped, the sleep follows.
Unhandled(task, failure) ==
    [task EXCEPT !.pc = "for", !.ids = <<>>, !.failed = failure]

\* The sleep is over and the listing answers.
LiveCycleStarts(l) ==
    /\ loops[l].pc = "for" /\ loops[l].ids = <<>>
    /\ \E S \in Listings :
           loops' = [loops EXCEPT ![l].ids = Descending(S), ![l].cycle = 1 - @]
    /\ UNCHANGED <<storeVars, limiter, cache, tokens, cleanup, proc, reply, ranked, worker, backfill, main>>

\* The sleep is over and the listing raises: get_public_matches (return),
\* every get_explorer_match_ids (all_ids stays empty).
LiveListingFails(l) ==
    /\ loops[l].pc = "for" /\ loops[l].ids = <<>>
    /\ loops' = [loops EXCEPT ![l].cycle = 1 - @, ![l].failed = "listing"]
    /\ UNCHANGED <<storeVars, limiter, cache, tokens, cleanup, proc, reply, ranked, worker, backfill, main>>

\* match_exists raises: the exception leaves the for loop.
LiveExistsRaises(l) ==
    /\ loops[l].pc = "for" /\ loops[l].ids # <<>>
    /\ loops' = [loops EXCEPT ![l] = Unhandled(@, "exists")]
    /\ UNCHANGED <<storeVars, limiter, cache, tokens, cleanup, proc, reply, ranked, worker, backfill, main>>

\* if match_exists(match_id): continue
LiveSkipExisting(l) ==
    /\ loops[l].pc = "for" /\ loops[l].ids # <<>>
    /\ match_exists(db, Head(loops[l].ids))
    /\ loops' = [loops EXCEPT ![l].ids = Tail(@), ![l].failed = "none"]
    /\ UNCHANGED <<storeVars, limiter, cache, tokens, cleanup, proc, reply, ranked, worker, backfill, main>>

\* process_single_match is entered; the rate limiter lets the task through;
\* the request is sent and awaited.
LiveTake(l) ==
    /\ loops[l].pc = "for" /\ loops[l].ids # <<>>
    /\ ~match_exists(db, Head(loops[l].ids))
    /\ loops' = [loops EXCEPT ![l].pc = "fetching", ![l].failed = "none"]
    /\ UNCHANGED <<storeVars, limiter, cache, tokens, cleanup, proc, reply, ranked, worker, backfill, main>>

\* get_match_details raises: return False.
LiveHttpError(l) ==
    /\ loops[l].pc = "fetching"
    /\ loops' = [loops EXCEPT ![l].pc = "for", ![l].ids = Tail(@),
                              ![l].failed = "detail"]
    /\ UNCHANGED <<storeVars, limiter, cache, tokens, cleanup, proc, reply, ranked, worker, backfill, main>>

\* The answer arrives: the parser or the mode filter refuses it (return
\* False), or it is saved.
LiveProcess(l) ==
    /\ loops[l].pc = "fetching"
    /\ \E details \in LiveDetailsFor(Head(loops[l].ids)) :
           LET parsed == _parse_match_details(details)
           IN  IF Skipped(parsed)
               THEN /\ loops' = [loops EXCEPT
                                    ![l].pc = "for", ![l].ids = Tail(@),
                                    ![l].failed = IF parsed = NoRecord THEN "parse"
                                                  ELSE "mode"]
                    /\ db' = db
               ELSE /\ loops' = [loops EXCEPT ![l].pc = "for", ![l].ids = Tail(@),
                                              ![l].failed = "none"]
                    /\ db' = VisibleAfterCommit(
                                 db, save_match_and_update_aggregates(db, parsed))
    /\ UNCHANGED <<txn, limiter, cache, tokens, cleanup, proc, reply, ranked, worker, backfill, main>>

\* The save raises after its first statement: rollback, return False.
LiveSaveRaises(l) ==
    /\ loops[l].pc = "fetching"
    /\ \E details \in LiveDetailsFor(Head(loops[l].ids)) :
           LET parsed == _parse_match_details(details)
           IN  /\ ~Skipped(parsed)
               /\ db' = VisibleAfterRollback(
                            db, SaveStatement("insert_match", db, parsed))
    /\ loops' = [loops EXCEPT ![l].pc = "for", ![l].ids = Tail(@),
                              ![l].failed = "store"]
    /\ UNCHANGED <<txn, limiter, cache, tokens, cleanup, proc, reply, ranked, worker, backfill, main>>

\* One step of the task l.
LiveStep(l) ==
    \/ LiveCycleStarts(l)
    \/ LiveListingFails(l)
    \/ LiveExistsRaises(l)
    \/ LiveSkipExisting(l)
    \/ LiveTake(l)
    \/ LiveHttpError(l)
    \/ LiveProcess(l)
    \/ LiveSaveRaises(l)

\* No request of the API is being answered.
NoReply ==
    [op |-> "none", pc |-> "idle", hero_id |-> 0, limit |-> 0, min_games |-> 0,
     read |-> EmptyDb, rows |-> {}, order |-> 1, status |-> 0,
     counters |-> <<>>, victims |-> <<>>]

(***************************************************************************)
(* The rank of a match (stats_updater.py): _rank_bucket_for_tier, the      *)
(* avg_rank_tier of the parser's record and the fallback of                *)
(* process_single_match to the value of the listing.                       *)
(* ranked: detail and summary the avg_rank_tier of the /matches/{id}       *)
(* answer and of the listing entry (NULL: none), avg_rank_tier and         *)
(* rank_bucket what save_match_and_update_aggregates was given to store.   *)
(***************************************************************************)
MaxTier == 62

Tiers == {NULL} \cup 0..MaxTier

\* Fault: tier 20 falls into "mid".
BucketLowBelow20(avg_rank_tier) ==
    IF avg_rank_tier = NULL \/ avg_rank_tier = 0 THEN "unknown"
    ELSE IF avg_rank_tier < 20 THEN "low"
    ELSE IF avg_rank_tier <= 35 THEN "mid"
    ELSE IF avg_rank_tier <= 50 THEN "high"
    ELSE IF avg_rank_tier <= 60 THEN "very_high"
    ELSE "immortal"

\* if not avg_rank_tier: "unknown"; <= 20, <= 35, <= 50, <= 60; "immortal"
_rank_bucket_for_tier(avg_rank_tier) ==
    IF avg_rank_tier = NULL \/ avg_rank_tier = 0 THEN "unknown"
    ELSE IF avg_rank_tier <= 20 THEN "low"
    ELSE IF avg_rank_tier <= 35 THEN "mid"
    ELSE IF avg_rank_tier <= 50 THEN "high"
    ELSE IF avg_rank_tier <= 60 THEN "very_high"
    ELSE "immortal"

\* _parse_match_details: avg_rank_tier = match.get("avg_rank_tier");
\* bucket = _rank_bucket_for_tier(avg_rank_tier)
ParsedRank(detail) ==
    [avg_rank_tier |-> detail, rank_bucket |-> _rank_bucket_for_tier(detail)]

\* Fault: the listing's value is never taken.
NoFallback(parsed, fallback_avg_rank_tier) == parsed

\* if parsed["avg_rank_tier"] is None and fallback_avg_rank_tier is not None:
\* both fields are replaced.
WithFallback(parsed, fallback_avg_rank_tier) ==
    IF parsed.avg_rank_tier = NULL /\ fallback_avg_rank_tier # NULL
    THEN [avg_rank_tier |-> fallback_avg_rank_tier,
          rank_bucket   |-> _rank_bucket_for_tier(fallback_avg_rank_tier)]
    ELSE parsed

NoRanked ==
    [pc |-> "idle", detail |-> NULL, summary |-> NULL,
     avg_rank_tier |-> NULL, rank_bucket |-> "unknown"]

\* process_single_match(match_id, fallback_avg_rank_tier=summary): the
\* answer is parsed, the fallback applied, the record saved as it is.
RankStored(detail, summary) ==
    /\ ranked.pc = "idle"
    /\ LET parsed == WithFallback(ParsedRank(detail), summary)
       IN  ranked' = [pc |-> "stored", detail |-> detail, summary |-> summary,
                      avg_rank_tier |-> parsed.avg_rank_tier,
                      rank_bucket |-> parsed.rank_bucket]
    /\ UNCHANGED <<db, txn, loops, limiter, cache, tokens, cleanup, proc, reply, worker, backfill, main>>

\* The next match.
RankNext ==
    /\ ranked.pc = "stored"
    /\ ranked' = NoRanked
    /\ UNCHANGED <<db, txn, loops, limiter, cache, tokens, cleanup, proc, reply, worker, backfill, main>>

(***************************************************************************)
(* The worker with its switches (stats_updater.py): FETCH_MATCH_DETAILS    *)
(* and USE_EXPLORER, the cap MAX_MATCHES_PER_CYCLE of the listing loop,    *)
(* and the requests the loops have sent to the provider.                   *)
(* worker: fetch and explorer the two switches, listing what               *)
(* get_public_matches returns (most recent first), inflight the requests   *)
(* sent and not yet answered, as (loop, id), id = 0 for the listing or the *)
(* query.  loops[l] here: pc, list the ids of the cycle, ids those not yet *)
(* handled, calls the detail calls and acq the acquisitions of the cycle.  *)
(* faults counts the calls that raised.  Every answered detail call brings *)
(* a match of an allowed mode.                                             *)
(***************************************************************************)
MAX_MATCHES_PER_CYCLE == 1

\* The provider and the store fail now and then, not for ever: at most
\* MaxFaults calls raise in a run.
MaxFaults == 2

NoWorker ==
    [fetch |-> FALSE, explorer |-> FALSE, listing |-> <<>>, inflight |-> {}, faults |-> 0]

\* if not FETCH_MATCH_DETAILS: return (fetch_and_process_matches);
\* if not USE_EXPLORER: return (explorer_loop).
PathEnabled(l) == IF l = "publicMatches" THEN worker.fetch ELSE worker.explorer

\* Fault: the listing loop handles every entry of the listing.
Uncapped(l, raw) == raw

\* raw_matches[:MAX_MATCHES_PER_CYCLE] in the listing loop; all_ids in the
\* explorer loop.
Capped(l, raw) ==
    IF l = "publicMatches"
    THEN SubSeq(raw, 1, Min(Len(raw), MAX_MATCHES_PER_CYCLE))
    ELSE raw

\* Fault: the detail call is started and not awaited; the loop goes on.
NotAwaited(task) ==
    [task EXCEPT !.ids = Tail(@), !.calls = @ + 1, !.acq = @ + 1]

\* ok = await process_single_match(...): the acquisition, then the request
\* is awaited.
AfterIssue(task) ==
    [task EXCEPT !.pc = "fetching", !.calls = @ + 1, !.acq = @ + 1]

Sent(l, id) == [loop |-> l, id |-> id]

\* The path is switched off: fetch_and_process_matches returns at once and
\* main sleeps again; explorer_loop returns and its task ends.
RunDisabled(l) ==
    /\ loops[l].pc = "sleep" /\ ~PathEnabled(l)
    /\ loops' = [loops EXCEPT ![l].pc = IF l = "explorer" THEN "off" ELSE "sleep"]
    /\ UNCHANGED <<storeVars, limiter, cache, tokens, cleanup, proc, reply, ranked, worker, backfill, main>>

\* A cycle starts: the acquisition, then get_public_matches or
\* get_explorer_match_ids is sent and awaited.
RunAskListing(l) ==
    /\ loops[l].pc = "sleep" /\ PathEnabled(l)
    /\ loops' = [loops EXCEPT ![l] = [pc |-> "listing", list |-> <<>>, ids |-> <<>>,
                                     calls |-> 0, acq |-> 1]]
    /\ worker' = [worker EXCEPT !.inflight = @ \cup {Sent(l, 0)}]
    /\ UNCHANGED <<storeVars, limiter, cache, tokens, cleanup, proc, reply, ranked, backfill, main>>

\* The listing answers: the for loop starts.
RunListingAnswers(l) ==
    /\ loops[l].pc = "listing"
    /\ \E S \in SUBSET MatchIds :
           LET raw == IF l = "publicMatches" THEN worker.listing ELSE Descending(S)
           IN  loops' = [loops EXCEPT ![l].pc = "for", ![l].list = Capped(l, raw),
                                      ![l].ids = Capped(l, raw)]
    /\ worker' = [worker EXCEPT !.inflight = @ \ {Sent(l, 0)}]
    /\ UNCHANGED <<storeVars, limiter, cache, tokens, cleanup, proc, reply, ranked, backfill, main>>

\* The listing raises: the cycle has nothing to handle.
RunListingFails(l) ==
    /\ loops[l].pc = "listing" /\ worker.faults < MaxFaults
    /\ loops' = [loops EXCEPT ![l].pc = "sleep"]
    /\ worker' = [worker EXCEPT !.inflight = @ \ {Sent(l, 0)}, !.faults = @ + 1]
    /\ UNCHANGED <<storeVars, limiter, cache, tokens, cleanup, proc, reply, ranked, backfill, main>>

\* The for loop is over: the sleep.
RunCycleEnds(l) ==
    /\ loops[l].pc = "for" /\ loops[l].ids = <<>>
    /\ loops' = [loops EXCEPT ![l].pc = "sleep"]
    /\ UNCHANGED <<storeVars, limiter, cache, tokens, cleanup, proc, reply, ranked, worker, backfill, main>>

\* if match_exists(match_id): continue
RunSkipExisting(l) ==
    /\ loops[l].pc = "for" /\ loops[l].ids # <<>>
    /\ match_exists(db, Head(loops[l].ids))
    /\ loops' = [loops EXCEPT ![l].ids = Tail(@)]
    /\ UNCHANGED <<storeVars, limiter, cache, tokens, cleanup, proc, reply, ranked, worker, backfill, main>>

\* match_exists raises: the rest of the cycle is dropped.
RunExistsRaises(l) ==
    /\ loops[l].pc = "for" /\ loops[l].ids # <<>> /\ worker.faults < MaxFaults
    /\ loops' = [loops EXCEPT ![l].pc = "sleep", ![l].ids = <<>>]
    /\ worker' = [worker EXCEPT !.faults = @ + 1]
    /\ UNCHANGED <<storeVars, limiter, cache, tokens, cleanup, proc, reply, ranked, backfill, main>>

\* match_exists is false: process_single_match acquires and sends
\* get_match_details.
RunTake(l) ==
    /\ loops[l].pc = "for" /\ loops[l].ids # <<>>
    /\ ~match_exists(db, Head(loops[l].ids))
    /\ loops' = [loops EXCEPT ![l] = AfterIssue(@)]
    /\ worker' = [worker EXCEPT !.inflight = @ \cup {Sent(l, Head(loops[l].ids))}]
    /\ UNCHANGED <<storeVars, limiter, cache, tokens, cleanup, proc, reply, ranked, backfill, main>>

\* get_match_details raises: return False.
RunHttpError(l) ==
    /\ loops[l].pc = "fetching" /\ worker.faults < MaxFaults
    /\ loops' = [loops EXCEPT ![l].pc = "for", ![l].ids = Tail(@)]
    /\ worker' = [worker EXCEPT !.inflight = @ \ {Sent(l, Head(loops[l].ids))},
                                 !.faults = @ + 1]
    /\ UNCHANGED <<storeVars, limiter, cache, tokens, cleanup, proc, reply, ranked, backfill, main>>

\* The answer arrives, is parsed and saved; the save commits.
RunSaved(l) ==
    /\ loops[l].pc = "fetching"
    /\ LET id     == Head(loops[l].ids)
           parsed == _parse_match_details(
                         Detail(id, FirstLineup, TRUE, MIN_MATCH_DURATION_SECONDS, 22, 7))
       IN  db' = VisibleAfterCommit(db, save_match_and_update_aggregates(db, parsed))
    /\ loops' = [loops EXCEPT ![l].pc = "for", ![l].ids = Tail(@)]
    /\ worker' = [worker EXCEPT !.inflight = @ \ {Sent(l, Head(loops[l].ids))}]
    /\ UNCHANGED <<txn, limiter, cache, tokens, cleanup, proc, reply, ranked, backfill, main>>

\* The answer arrives and the save raises: rollback, return False.
RunSaveRaises(l) ==
    /\ loops[l].pc = "fetching" /\ worker.faults < MaxFaults
    /\ LET id     == Head(loops[l].ids)
           parsed == _parse_match_details(
                         Detail(id, FirstLineup, TRUE, MIN_MATCH_DURATION_SECONDS, 22, 7))
       IN  db' = VisibleAfterRollback(db, SaveStatement("insert_match", db, parsed))
    /\ loops' = [loops EXCEPT ![l].pc = "for", ![l].ids = Tail(@)]
    /\ worker' = [worker EXCEPT !.inflight = @ \ {Sent(l, Head(loops[l].ids))},
                                 !.faults = @ + 1]
    /\ UNCHANGED <<txn, limiter, cache, tokens, cleanup, proc, reply, ranked, backfill, main>>

\* The answer to the detail call that is out: an error, or the match, whose
\* save commits or raises.
RunAnswer(l) ==
    \/ RunHttpError(l)
    \/ RunSaved(l)
    \/ RunSaveRaises(l)

\* Every other step of the task l.
RunOther(l) ==
    \/ RunDisabled(l)
    \/ RunAskListing(l)
    \/ RunListingAnswers(l)
    \/ RunListingFails(l)
    \/ RunCycleEnds(l)
    \/ RunSkipExisting(l)
    \/ RunExistsRaises(l)
    \/ RunTake(l)

\* One step of the task l.
RunStep(l) == RunOther(l) \/ RunAnswer(l)

(***************************************************************************)
(* Saves and evictions over lineups in which the smaller id of a cross-team *)
(* pair is on Radiant for some pairs and on Dire for others, with either   *)
(* result.                                                                 *)
(***************************************************************************)
PairLineups ==
    { Lineup(<<1, 2, 3, 4, 5>>, <<6, 7, 8, 9, 10>>),
      Lineup(<<1, 4, 6, 8, 10>>, <<2, 3, 5, 7, 9>>) }

\* process_single_match saves an answered match the store does not know.
PairSave(id, players, win) ==
    /\ Ready /\ ~match_exists(db, id)
    /\ LET parsed == _parse_match_details(
                         Detail(id, players, win, MIN_MATCH_DURATION_SECONDS, 22, 7))
       IN  db' = VisibleAfterCommit(db, save_match_and_update_aggregates(db, parsed))
    /\ UNCHANGED <<txn, loops, limiter, cache, tokens, cleanup, proc, reply, ranked, worker, backfill, main>>

(***************************************************************************)
(* backfill_match_player_stats (stats_updater.py) and its write            *)
(* update_match_players_backfill (stats_db.py).  backfill: pc and the ids  *)
(* of the batch still to handle.  The batch runs in the task of main(), as *)
(* run_cleanup does; the saves of the explorer loop come in at its awaits. *)
(***************************************************************************)
BackfillLimit == 1

NoBackfill == [pc |-> "idle", ids |-> <<>>]

RECURSIVE Ascending(_)
Ascending(S) ==
    IF S = {} THEN <<>>
    ELSE LET m == CHOOSE x \in S : \A y \in S : x <= y
         IN  <<m>> \o Ascending(S \ {m})

\* The same selection over the matches that count in the derived tables.
NeedingBackfillCounted(d, limit) ==
    LET ids == { m.match_id : m \in { x \in Remaining(d.matches) :
                     ~\E mp \in d.match_players : mp.match_id = x.match_id } }
    IN  SubSeq(Ascending(ids), 1, Min(limit, Cardinality(ids)))

\* SELECT m.match_id FROM matches m WHERE NOT EXISTS (SELECT 1 FROM
\* match_players mp WHERE mp.match_id = m.match_id) ORDER BY m.match_id LIMIT :lim
get_match_ids_needing_backfill(d, limit) ==
    LET ids == { m.match_id : m \in { x \in d.matches :
                     ~\E mp \in d.match_players : mp.match_id = x.match_id } }
    IN  SubSeq(Ascending(ids), 1, Min(limit, Cardinality(ids)))

\* DELETE FROM match_players WHERE match_id = :mid, then one INSERT for
\* each player (the slots of the lineups here are distinct).
update_match_players_backfill(d, match_id, players) ==
    [d EXCEPT !.match_players =
        DeletePlayers(@, {match_id})
        \cup { [match_id |-> match_id, hero_id |-> players[i].hero_id,
                player_slot |-> players[i].player_slot,
                is_radiant |-> players[i].is_radiant] : i \in DOMAIN players }]

\* What GET /matches/{id} answers to the backfill: the ten players, or a
\* payload the parser refuses.
BackfillDetailsFor(id) ==
    { Detail(id, FirstLineup, TRUE, MIN_MATCH_DURATION_SECONDS, 22, 7),
      Detail(id, Lineup(<<1, 2, 3, 4>>, <<6, 7, 8, 9, 10>>), TRUE,
             MIN_MATCH_DURATION_SECONDS, 22, 7) }

\* if not FETCH_MATCH_DETAILS: return; match_ids =
\* get_match_ids_needing_backfill(limit); if not match_ids: return
BackfillStarts ==
    /\ backfill.pc = "idle" /\ Ready /\ worker.fetch
    /\ backfill' = LET match_ids == get_match_ids_needing_backfill(db, BackfillLimit)
                   IN  IF match_ids = <<>> THEN NoBackfill
                       ELSE [pc |-> "for", ids |-> match_ids]
    /\ UNCHANGED <<storeVars, loops, limiter, cache, tokens, cleanup, proc, reply, ranked, worker, main>>

\* get_match_details raises: continue.
BackfillHttpError ==
    /\ backfill.pc = "for" /\ backfill.ids # <<>>
    /\ backfill' = [backfill EXCEPT !.ids = Tail(@)]
    /\ UNCHANGED <<storeVars, loops, limiter, cache, tokens, cleanup, proc, reply, ranked, worker, main>>

\* The answer is parsed: `if parsed is None or not parsed.get("players"):
\* continue`, else update_match_players_backfill commits.
BackfillWrites ==
    /\ backfill.pc = "for" /\ backfill.ids # <<>> /\ Ready
    /\ \E details \in BackfillDetailsFor(Head(backfill.ids)) :
           LET parsed == _parse_match_details(details)
           IN  db' = IF parsed = NoRecord \/ parsed.players = <<>>
                     THEN db
                     ELSE VisibleAfterCommit(
                              db, update_match_players_backfill(
                                      db, Head(backfill.ids), parsed.players))
    /\ backfill' = [backfill EXCEPT !.ids = Tail(@)]
    /\ UNCHANGED <<txn, loops, limiter, cache, tokens, cleanup, proc, reply, ranked, worker, main>>

\* update_match_players_backfill raises: rollback, continue.
BackfillDbError ==
    /\ backfill.pc = "for" /\ backfill.ids # <<>> /\ Ready
    /\ db' = VisibleAfterRollback(
                 db, [db EXCEPT !.match_players = DeletePlayers(@, {Head(backfill.ids)})])
    /\ backfill' = [backfill EXCEPT !.ids = Tail(@)]
    /\ UNCHANGED <<txn, loops, limiter, cache, tokens, cleanup, proc, reply, ranked, worker, main>>

\* The batch is over.
BackfillEnds ==
    /\ backfill.pc = "for" /\ backfill.ids = <<>>
    /\ backfill' = NoBackfill
    /\ UNCHANGED <<storeVars, loops, limiter, cache, tokens, cleanup, proc, reply, ranked, worker, main>>

\* A loop saves a match of the duration given; it has the first lineup.
SaveOfDuration(id, duration) ==
    /\ Ready /\ ~match_exists(db, id)
    /\ LET parsed == _parse_match_details(Detail(id, FirstLineup, TRUE, duration, 22, 7))
       IN  db' = VisibleAfterCommit(db, save_match_and_update_aggregates(db, parsed))
    /\ UNCHANGED <<txn, loops, limiter, cache, tokens, cleanup, proc, reply, ranked, worker, backfill, main>>

\* run_cleanup evicts between two batches, never inside one.
EvictBetweenBatches(ids) == backfill.pc = "idle" /\ EvictCall(ids)

(***************************************************************************)
(* main() (stats_updater.py): the tick of the listing loop with the guarded *)
(* cleanup branch.  Time is time.time() in hours.  main: pc, now the clock, *)
(* last_cleanup_time, and for the record attempted, the time the last run  *)
(* of run_cleanup ended (NULL before any), raised, whether it raised, and  *)
(* polled, whether a poll has been made.  What run_cleanup does to the     *)
(* store is in the cleanup section above.                                  *)
(***************************************************************************)
CLEANUP_INTERVAL_HOURS == 2

MaxClock == 7

\* time.time() at start-up: the Unix time, far beyond one interval.
StartTimes == CLEANUP_INTERVAL_HOURS..(CLEANUP_INTERVAL_HOURS + 1)

NoMain ==
    [pc |-> "off", now |-> 0, last_cleanup_time |-> 0, attempted |-> NULL,
     raised |-> FALSE, polled |-> FALSE]

\* if (time.time() - last_cleanup_time) >= CLEANUP_INTERVAL_HOURS * 3600
CleanupDue(now, last_cleanup_time) == now - last_cleanup_time >= CLEANUP_INTERVAL_HOURS

\* Fault: the time is taken inside the try, after a run that did not raise.
StampOnSuccess(last_cleanup_time, now, raised) ==
    IF raised THEN last_cleanup_time ELSE now

\* last_cleanup_time = time.time(), after the try/except.
StampAfterAttempt(last_cleanup_time, now, raised) == now

\* The head of the while loop: the cleanup branch is taken or not.
MainTick ==
    /\ main.pc = "tick"
    /\ main' = [main EXCEPT !.pc = IF CleanupDue(main.now, main.last_cleanup_time)
                                   THEN "cleanup" ELSE "poll"]
    /\ UNCHANGED <<storeVars, loops, limiter, cache, tokens, cleanup, proc, reply, ranked, worker, backfill>>

\* await run_cleanup() returns or raises (except Exception: log).
MainCleanupEnds(raised) ==
    /\ main.pc = "cleanup"
    /\ main' = [main EXCEPT
                   !.pc = "poll",
                   !.last_cleanup_time = StampAfterAttempt(@, main.now, raised),
                   !.attempted = main.now, !.raised = raised]
    /\ UNCHANGED <<storeVars, loops, limiter, cache, tokens, cleanup, proc, reply, ranked, worker, backfill>>

\* await fetch_and_process_matches(), whatever it does or raises.
MainPoll ==
    /\ main.pc = "poll"
    /\ main' = [main EXCEPT !.pc = "sleep", !.polled = TRUE]
    /\ UNCHANGED <<storeVars, loops, limiter, cache, tokens, cleanup, proc, reply, ranked, worker, backfill>>

\* await asyncio.sleep(sleep_sec) is over: the next tick.
MainSleepEnds ==
    /\ main.pc = "sleep"
    /\ main' = [main EXCEPT !.pc = "tick"]
    /\ UNCHANGED <<storeVars, loops, limiter, cache, tokens, cleanup, proc, reply, ranked, worker, backfill>>

\* An hour passes, wherever main() stands.
MainHourPasses ==
    /\ main.now < MaxClock
    /\ main' = [main EXCEPT !.now = @ + 1]
    /\ UNCHANGED <<storeVars, loops, limiter, cache, tokens, cleanup, proc, reply, ranked, worker, backfill>>

Init ==
    /\ db = EmptyDb
    /\ txn = Idle
    /\ loops = NoLoops
    /\ limiter = NoLimiter
    /\ cache = NoCache
    /\ tokens = NoTokens
    /\ cleanup = NoCleanup
    /\ proc = NoProc
    /\ reply = NoReply
    /\ ranked = NoRanked
    /\ worker = NoWorker
    /\ backfill = NoBackfill
    /\ main = NoMain

Next ==
    \/ \E p \in ParsedRecords : SaveCall(p)
    \/ SaveRetry
    \/ SaveInsertMatch
    \/ SaveInsertPlayers
    \/ SaveUpdateHeroStats
    \/ SaveUpdateHeroMatchups
    \/ SaveUpdateHeroSynergy
    \/ \E ids \in SUBSET MatchIds : EvictCall(ids)
    \/ EvictDeletePlayers
    \/ EvictDeleteMatches
    \/ RecalcCall
    \/ RebuildWipe
    \/ RebuildAccumulate
    \/ RebuildBulkInsert
    \/ TxnCommit
    \/ TxnFail
    \/ Return

Spec == Init /\ [][Next]_vars

\* The worker with both loops enabled (FETCH_MATCH_DETAILS=1, USE_EXPLORER=1).
InitLoops ==
    /\ db = EmptyDb
    /\ txn = Idle
    /\ loops = [l \in LoopNames |-> [pc |-> "for", ids |-> <<>>, saved |-> 0]]
    /\ limiter = NoLimiter
    /\ cache = NoCache
    /\ tokens = NoTokens
    /\ cleanup = NoCleanup
    /\ proc = NoProc
    /\ reply = NoReply
    /\ ranked = NoRanked
    /\ worker = NoWorker
    /\ backfill = NoBackfill
    /\ main = NoMain

NextLoops ==
    \E l \in LoopNames :
        \/ LoopListIds(l)
        \/ LoopSkipExisting(l)
        \/ LoopTake(l)
        \/ LoopAcquire(l)
        \/ LoopHttpError(l)
        \/ LoopProcess(l)
        \/ LoopSaveRaises(l)

SpecLoops == InitLoops /\ [][NextLoops]_vars

\* The worker's tasks around the shared limiter, from any reading of the
\* clock at start-up.
InitLimiter ==
    /\ db = EmptyDb
    /\ txn = Idle
    /\ loops = NoLoops
    /\ cache = NoCache
    /\ tokens = NoTokens
    /\ cleanup = NoCleanup
    /\ proc = NoProc
    /\ reply = NoReply
    /\ ranked = NoRanked
    /\ worker = NoWorker
    /\ backfill = NoBackfill
    /\ main = NoMain
    /\ limiter \in { [NoLimiter EXCEPT
                         !.now = t,
                         !.task = [l \in LoopNames |->
                                      [pc |-> "ready", api |-> "none", wake |-> 0]]] :
                     t \in 0.._min_delay }

NextLimiter ==
    \/ \E l \in LoopNames : \E api \in ProviderCalls(l) : Acquire(l, api)
    \/ \E l \in LoopNames : AcquireWake(l)
    \/ \E l \in LoopNames : CallReturns(l)
    \/ ClockTick

SpecLimiter == InitLimiter /\ [][NextLimiter]_vars

\* The API and the bot on an empty cache.
InitCache ==
    /\ db = EmptyDb
    /\ txn = Idle
    /\ loops = NoLoops
    /\ limiter = NoLimiter
    /\ cache = NoCache
    /\ tokens = NoTokens
    /\ cleanup = NoCleanup
    /\ proc = NoProc
    /\ reply = NoReply
    /\ ranked = NoRanked
    /\ worker = NoWorker
    /\ backfill = NoBackfill
    /\ main = NoMain

NextCache ==
    \/ \E r \in Requests : \E hero_id \in CachedHeroes : CacheHit(r, hero_id)
    \/ \E r \in Requests : \E hero_id \in CachedHeroes : CacheMiss(r, hero_id)
    \/ \E r \in Requests : ProviderRaises(r)
    \/ \E r \in Requests : \E api_data \in Responses : ProviderAnswers(r, api_data)
    \/ \E r \in Requests : ReplaceDelete(r)
    \/ \E r \in Requests : ReplaceAdd(r)
    \/ \E r \in Requests : ReplaceCommit(r)
    \/ \E r \in Requests : ReplaceRaises(r)
    \/ \E r \in Requests : RequestDone(r)
    \/ HourPasses

SpecCache == InitCache /\ [][NextCache]_vars

\* The bot creating tokens and the API resolving them, known or not.
InitTokens ==
    /\ db = EmptyDb
    /\ txn = Idle
    /\ loops = NoLoops
    /\ limiter = NoLimiter
    /\ cache = NoCache
    /\ tokens = NoTokens
    /\ cleanup = NoCleanup
    /\ proc = NoProc
    /\ reply = NoReply
    /\ ranked = NoRanked
    /\ worker = NoWorker
    /\ backfill = NoBackfill
    /\ main = NoMain

NextTokens ==
    \/ \E user_id \in UserIds : \E token_str \in TokenStrings :
           CreateToken(user_id, token_str)
    \/ \E token \in TokenStrings : ResolveToken(token)
    \/ TokenHourPasses

SpecTokens == InitTokens /\ [][NextTokens]_vars

\* The stores the worker has filled: for every match id no save, or the save
\* of one of the records the parser returns for it.
RECURSIVE Filled(_, _)
Filled(d, ids) ==
    IF ids = {} THEN {d}
    ELSE LET id == CHOOSE x \in ids : TRUE
         IN  Filled(d, ids \ {id})
             \cup UNION { Filled(save_match_and_update_aggregates(d, p), ids \ {id}) :
                          p \in { x \in ParsedRecords : x.match_id = id } }

\* run_cleanup over a filled store.
InitCleanup ==
    /\ db \in Filled(EmptyDb, MatchIds)
    /\ txn = Idle
    /\ loops = NoLoops
    /\ limiter = NoLimiter
    /\ cache = NoCache
    /\ tokens = NoTokens
    /\ cleanup = NoCleanup
    /\ proc = NoProc
    /\ reply = NoReply
    /\ ranked = NoRanked
    /\ worker = NoWorker
    /\ backfill = NoBackfill
    /\ main = NoMain

NextCleanup ==
    \/ \E now \in Nows : CleanupAge(now)
    \/ CleanupAgeDone
    \/ CleanupCount
    \/ CleanupSizeDone
    \/ CleanupRaises
    \/ CleanupReturns
    \/ EvictDeletePlayers
    \/ EvictDeleteMatches
    \/ RebuildWipe
    \/ RebuildAccumulate
    \/ RebuildBulkInsert
    \/ TxnCommit
    \/ TxnFail

SpecCleanup == InitCleanup /\ [][NextCleanup]_vars

\* process_single_match called for the ids the store does not know.
InitProcess ==
    /\ db = EmptyDb
    /\ txn = Idle
    /\ loops = NoLoops
    /\ limiter = NoLimiter
    /\ cache = NoCache
    /\ tokens = NoTokens
    /\ cleanup = NoCleanup
    /\ proc = NoProc
    /\ reply = NoReply
    /\ ranked = NoRanked
    /\ worker = NoWorker
    /\ backfill = NoBackfill
    /\ main = NoMain

NextProcess ==
    \/ \E id \in MatchIds : ProcessAnswer(id)
    \/ \E id \in MatchIds : ProcessSaveRaises(id)
    \/ ProcessNext

SpecProcess == InitProcess /\ [][NextProcess]_vars

\* The worker with both loops enabled, each about to start its first cycle.
InitLive ==
    /\ db = EmptyDb
    /\ txn = Idle
    /\ loops = [l \in LoopNames |->
                   [pc |-> "for", ids |-> <<>>, cycle |-> 0, failed |-> "none"]]
    /\ limiter = NoLimiter
    /\ cache = NoCache
    /\ tokens = NoTokens
    /\ cleanup = NoCleanup
    /\ proc = NoProc
    /\ reply = NoReply
    /\ ranked = NoRanked
    /\ worker = NoWorker
    /\ backfill = NoBackfill
    /\ main = NoMain

NextLive == \E l \in LoopNames : LiveStep(l)

SpecLive ==
    InitLive /\ [][NextLive]_vars /\ \A l \in LoopNames : WF_vars(LiveStep(l))

(***************************************************************************)
(* Reads (engine.connect(): the committed rows)                            *)
(***************************************************************************)
\* SELECT games FROM hero_stats WHERE hero_id = :id; 0 without a row.
get_hero_total_games(d, hero_id) ==
    IF \E r \in d.hero_stats : r.hero_id = hero_id
    THEN (CHOOSE r \in d.hero_stats : r.hero_id = hero_id).games
    ELSE 0

\* SELECT ... FROM hero_matchups WHERE (hero_a = :id OR hero_b = :id) AND
\* games >= :min, each row turned to the side of hero_id: the opponent, the
\* games, the wins of hero_id, wr_vs in ten-thousandths.
get_hero_matchup_rows(d, hero_id, min_games) ==
    { [hero_id |-> IF row.hero_a = hero_id THEN row.hero_b ELSE row.hero_a,
       games   |-> row.games,
       wins    |-> IF row.hero_a = hero_id THEN row.wins ELSE row.games - row.wins,
       wr_vs   |-> IF row.games > 0
                   THEN Round4(IF row.hero_a = hero_id THEN row.wins
                               ELSE row.games - row.wins, row.games)
                   ELSE 0] :
      row \in { x \in d.hero_matchups :
                  (x.hero_a = hero_id \/ x.hero_b = hero_id) /\ x.games >= min_games } }

\* SELECT games, wins FROM hero_stats WHERE hero_id = :id; None without a row
\* or without games, else round(wins / games, 4) in ten-thousandths.
get_hero_base_winrate_from_db(d, hero_id) ==
    LET found == { r \in d.hero_stats : r.hero_id = hero_id }
    IN  IF found = {} THEN NULL
        ELSE LET row == CHOOSE r \in found : TRUE
             IN  IF row.games = 0 THEN NULL ELSE Round4(row.wins, row.games)

(***************************************************************************)
(* GET /api/hero/{hero_id}/counters (api.py).  The API is another process  *)
(* than the worker: each of its reads opens its own connection, and the    *)
(* worker may commit between two of them.                                  *)
(* reply: op and pc the request and its position, read the store as the    *)
(* first read saw it, rows what get_hero_matchup_rows returned and order   *)
(* the order it returned them in, status and the two lists the response.   *)
(***************************************************************************)
SmallLimit == 1

DefaultLimit == 20

\* limit: Query(default=20, ge=1, le=200)
Limits == {SmallLimit, DefaultLimit}

\* min_games: Query(default=50, ge=1); the stores here have pairs of 1 and 2
\* games.
MinGamesAsked == {1, 2}

\* Heroes asked for: two that play, one that no payload has.
AskedHeroes == {1, 5, 11}

\* if base_wr is None: base_wr = 0.5
BaseOrNeutral(base_wr) == IF base_wr = NULL THEN 5000 ELSE base_wr

\* {"hero_id", "games", "wr_vs", "advantage": round(wr_vs - base_wr, 4)}
Enriched(rows, base_wr) ==
    { [hero_id |-> row.hero_id, games |-> row.games, wr_vs |-> row.wr_vs,
       advantage |-> row.wr_vs - base_wr] : row \in rows }

IsCounter(e) == e.advantage < 0

\* Fault: the docstring's "advantage > 0".
IsStrictVictim(e) == e.advantage > 0

IsVictim(e) == e.advantage >= 0

\* The order in which the SELECT returns the rows, which SQL leaves open:
\* here by ascending or by descending opponent id.
RowOrders == {1, -1}

\* sorted(S, key=advantage)[:n], sorted(S, key=advantage, reverse=True)[:n]
\* with sign = 1, -1.  Both sorts are stable: rows of equal advantage keep
\* the order the database returned them in.
RECURSIVE SortedHead(_, _, _, _)
SortedHead(S, sign, n, order) ==
    IF S = {} \/ n <= 0 THEN <<>>
    ELSE LET m == CHOOSE x \in S : \A y \in S :
                      \/ sign * x.advantage < sign * y.advantage
                      \/ /\ x.advantage = y.advantage
                         /\ order * x.hero_id <= order * y.hero_id
         IN  <<m>> \o SortedHead(S \ {m}, sign, n - 1, order)

\* The request arrives with hero_id > 0: rows = get_hero_matchup_rows(...);
\* without rows the answer is 503.
CountersRead(hero_id, limit, min_games, order) ==
    /\ reply.pc = "idle"
    /\ LET rows == get_hero_matchup_rows(db, hero_id, min_games)
       IN  reply' = [NoReply EXCEPT
                        !.order = IF rows = {} THEN 1 ELSE order,
                        !.op = "counters", !.hero_id = hero_id, !.limit = limit,
                        !.min_games = min_games, !.read = db, !.rows = rows,
                        !.pc = IF rows = {} THEN "answered" ELSE "ranking",
                        !.status = IF rows = {} THEN 503 ELSE 0]
    /\ UNCHANGED <<db, txn, loops, limiter, cache, tokens, cleanup, proc, ranked, worker, backfill, main>>

\* The worker commits a save while the API answers.
WorkerCommits(p) ==
    /\ reply.pc = "ranking"
    /\ ~match_exists(db, p.match_id) /\ ~Skipped(p)
    /\ db' = VisibleAfterCommit(db, save_match_and_update_aggregates(db, p))
    /\ UNCHANGED <<txn, loops, limiter, cache, tokens, cleanup, proc, reply, ranked, worker, backfill, main>>

\* base_wr is read, the rows are enriched, split, sorted and cut to limit.
CountersRank ==
    /\ reply.op = "counters" /\ reply.pc = "ranking"
    /\ LET base_wr  == BaseOrNeutral(get_hero_base_winrate_from_db(db, reply.hero_id))
           enriched == Enriched(reply.rows, base_wr)
           counters == SortedHead({ e \in enriched : IsCounter(e) }, 1,
                                  reply.limit, reply.order)
           victims  == SortedHead({ e \in enriched : IsVictim(e) }, -1,
                                  reply.limit, reply.order)
       IN  reply' = [reply EXCEPT !.pc = "answered", !.status = 200,
                                  !.counters = counters, !.victims = victims]
    /\ UNCHANGED <<db, txn, loops, limiter, cache, tokens, cleanup, proc, ranked, worker, backfill, main>>

\* The response is sent.
ReplySent ==
    /\ reply.pc = "answered"
    /\ reply' = NoReply
    /\ UNCHANGED <<db, txn, loops, limiter, cache, tokens, cleanup, proc, ranked, worker, backfill, main>>

(***************************************************************************)
(* The bot's /counters (bot.py, _handle_counters_hero), local data: the    *)
(* same two reads as the API, then its own split.  The reply is kept in    *)
(* reply with op = "bot": victims the list shown as strong against,        *)
(* counters the list shown as weak against.                                *)
(***************************************************************************)
\* get_hero_matchup_rows(hero_id, min_games=50), scaled to the stores here.
BotMinGames == 1

\* [:5]
BotLimit == 5

\* base_wr = get_hero_base_winrate_from_db(hero_id) or 0.5
BotBase(base_wr) == IF base_wr = NULL \/ base_wr = 0 THEN 5000 ELSE base_wr

\* [e for e in enriched if e["adv"] <= 0]
BotIsCounter(e) == e.advantage <= 0

\* [e for e in enriched if e["adv"] > 0]
BotIsVictim(e) == e.advantage > 0

\* local_rows = get_hero_matchup_rows(hero_id, min_games=50); without rows
\* the handler turns to the provider's data.
BotRead(hero_id, order) ==
    /\ reply.pc = "idle"
    /\ LET rows == get_hero_matchup_rows(db, hero_id, BotMinGames)
       IN  reply' = [NoReply EXCEPT
                        !.order = IF rows = {} THEN 1 ELSE order,
                        !.op = "bot", !.hero_id = hero_id, !.limit = BotLimit,
                        !.min_games = BotMinGames, !.read = db, !.rows = rows,
                        !.pc = IF rows = {} THEN "answered" ELSE "ranking",
                        !.status = 0]
    /\ UNCHANGED <<db, txn, loops, limiter, cache, tokens, cleanup, proc, ranked, worker, backfill, main>>

\* base_wr is read, the rows are enriched, split, sorted and cut to five.
BotRank ==
    /\ reply.op = "bot" /\ reply.pc = "ranking"
    /\ LET base_wr  == BotBase(get_hero_base_winrate_from_db(db, reply.hero_id))
           enriched == Enriched({ r \in reply.rows : r.games >= BotMinGames }, base_wr)
           victims  == SortedHead({ e \in enriched : BotIsVictim(e) }, -1,
                                  BotLimit, reply.order)
           counters == SortedHead({ e \in enriched : BotIsCounter(e) }, 1,
                                  BotLimit, reply.order)
       IN  reply' = [reply EXCEPT !.pc = "answered", !.status = 200,
                                  !.counters = counters, !.victims = victims]
    /\ UNCHANGED <<db, txn, loops, limiter, cache, tokens, cleanup, proc, ranked, worker, backfill, main>>

\* The API answers requests over a store the worker has filled and fills.
InitRanking ==
    /\ db \in Filled(EmptyDb, MatchIds)
    /\ txn = Idle
    /\ loops = NoLoops
    /\ limiter = NoLimiter
    /\ cache = NoCache
    /\ tokens = NoTokens
    /\ cleanup = NoCleanup
    /\ proc = NoProc
    /\ reply = NoReply
    /\ ranked = NoRanked
    /\ worker = NoWorker
    /\ backfill = NoBackfill
    /\ main = NoMain

NextRanking ==
    \/ \E hero_id \in AskedHeroes, limit \in Limits, min_games \in MinGamesAsked,
          order \in RowOrders :
           CountersRead(hero_id, limit, min_games, order)
    \/ \E p \in ParsedRecords : WorkerCommits(p)
    \/ CountersRank
    \/ ReplySent

SpecRanking == InitRanking /\ [][NextRanking]_vars

\* The rank fields of the matches the worker stores.
InitRank ==
    /\ db = EmptyDb
    /\ txn = Idle
    /\ loops = NoLoops
    /\ limiter = NoLimiter
    /\ cache = NoCache
    /\ tokens = NoTokens
    /\ cleanup = NoCleanup
    /\ proc = NoProc
    /\ reply = NoReply
    /\ ranked = NoRanked
    /\ worker = NoWorker
    /\ backfill = NoBackfill
    /\ main = NoMain

NextRank ==
    \/ \E detail \in Tiers, summary \in Tiers : RankStored(detail, summary)
    \/ RankNext

SpecRank == InitRank /\ [][NextRank]_vars

\* The worker started with any setting of its two switches, over a provider
\* whose listing stays as it is.
InitWorker ==
    /\ db = EmptyDb
    /\ txn = Idle
    /\ loops = [l \in LoopNames |->
                   [pc |-> "sleep", list |-> <<>>, ids |-> <<>>, calls |-> 0, acq |-> 0]]
    /\ limiter = NoLimiter
    /\ cache = NoCache
    /\ tokens = NoTokens
    /\ cleanup = NoCleanup
    /\ proc = NoProc
    /\ reply = NoReply
    /\ ranked = NoRanked
    /\ \E fetch \in BOOLEAN, explorer \in BOOLEAN, S \in SUBSET MatchIds :
           worker = [fetch |-> fetch, explorer |-> explorer,
                     listing |-> Descending(S), inflight |-> {}, faults |-> 0]
    /\ backfill = NoBackfill
    /\ main = NoMain

NextWorker == \E l \in LoopNames : RunStep(l)

\* asyncio runs each task that can step, and every call has a timeout, so
\* the detail call that is out is answered: weak fairness of the steps of a
\* task, that of RunAnswer(l) written out, the step being enabled exactly
\* while the call is out.  The calls that raise are counted in worker.faults,
\* so the calls succeed in the end.
SpecWorker ==
    /\ InitWorker /\ [][NextWorker]_vars
    /\ \A l \in LoopNames :
           /\ WF_vars(RunOther(l))
           /\ []<>(loops[l].pc # "fetching") \/ []<><<RunAnswer(l)>>_vars

\* Saves of matches of either result and evictions with their rebuild.
InitPairs ==
    /\ db = EmptyDb
    /\ txn = Idle
    /\ loops = NoLoops
    /\ limiter = NoLimiter
    /\ cache = NoCache
    /\ tokens = NoTokens
    /\ cleanup = NoCleanup
    /\ proc = NoProc
    /\ reply = NoReply
    /\ ranked = NoRanked
    /\ worker = NoWorker
    /\ backfill = NoBackfill
    /\ main = NoMain

NextPairs ==
    \/ \E id \in MatchIds, players \in PairLineups, win \in BOOLEAN :
           PairSave(id, players, win)
    \/ \E ids \in SUBSET MatchIds : EvictCall(ids)
    \/ EvictDeletePlayers
    \/ EvictDeleteMatches
    \/ RebuildWipe
    \/ RebuildAccumulate
    \/ RebuildBulkInsert
    \/ TxnCommit
    \/ Return

SpecPairs == InitPairs /\ [][NextPairs]_vars

\* Saves of long, short and unknown duration, evictions, and the backfill.
InitBackfill ==
    /\ db = EmptyDb
    /\ txn = Idle
    /\ loops = NoLoops
    /\ limiter = NoLimiter
    /\ cache = NoCache
    /\ tokens = NoTokens
    /\ cleanup = NoCleanup
    /\ proc = NoProc
    /\ reply = NoReply
    /\ ranked = NoRanked
    /\ \E fetch \in BOOLEAN : worker = [NoWorker EXCEPT !.fetch = fetch]
    /\ backfill = NoBackfill
    /\ main = NoMain

NextBackfill ==
    \/ \E id \in MatchIds,
          duration \in {NULL, MIN_MATCH_DURATION_SECONDS - 1, MIN_MATCH_DURATION_SECONDS} :
           SaveOfDuration(id, duration)
    \/ \E ids \in SUBSET MatchIds : EvictBetweenBatches(ids)
    \/ EvictDeletePlayers
    \/ EvictDeleteMatches
    \/ RebuildWipe
    \/ RebuildAccumulate
    \/ RebuildBulkInsert
    \/ TxnCommit
    \/ Return
    \/ BackfillStarts
    \/ BackfillHttpError
    \/ BackfillWrites
    \/ BackfillDbError
    \/ BackfillEnds

SpecBackfill == InitBackfill /\ [][NextBackfill]_vars

\* main() has set last_cleanup_time = 0.0 and enters its loop.
InitMain ==
    /\ db = EmptyDb
    /\ txn = Idle
    /\ loops = NoLoops
    /\ limiter = NoLimiter
    /\ cache = NoCache
    /\ tokens = NoTokens
    /\ cleanup = NoCleanup
    /\ proc = NoProc
    /\ reply = NoReply
    /\ ranked = NoRanked
    /\ worker = NoWorker
    /\ backfill = NoBackfill
    /\ \E t \in StartTimes : main = [NoMain EXCEPT !.pc = "tick", !.now = t]

NextMain ==
    \/ MainTick
    \/ \E raised \in BOOLEAN : MainCleanupEnds(raised)
    \/ MainPoll
    \/ MainSleepEnds
    \/ MainHourPasses

SpecMain == InitMain /\ [][NextMain]_vars

\* The API and the bot answer over a store the worker has filled and fills.
NextAnswers ==
    \/ \E hero_id \in AskedHeroes, limit \in Limits, min_games \in MinGamesAsked,
          order \in RowOrders :
           CountersRead(hero_id, limit, min_games, order)
    \/ \E hero_id \in AskedHeroes, order \in RowOrders : BotRead(hero_id, order)
    \/ \E p \in ParsedRecords : WorkerCommits(p)
    \/ CountersRank
    \/ BotRank
    \/ ReplySent

SpecAnswers == InitRanking /\ [][NextAnswers]_vars

(***************************************************************************)
(* What the stored matches say, counted directly from the rows of matches: *)
(* the yardstick the aggregate tables are compared with.                   *)
(***************************************************************************)
HeroIds == UNION { { d.players[i].hero_id : i \in DOMAIN d.players } : d \in Details }

RadiantOf(row) == JsonLoads(row.radiant_heroes)

DireOf(row) == JsonLoads(row.dire_heroes)

\* The rows a hero plays in.
RowsContaining(rows, h) ==
    { r \in rows : \/ \E i \in DOMAIN RadiantOf(r) : RadiantOf(r)[i] = h
                   \/ \E i \in DOMAIN DireOf(r) : DireOf(r)[i] = h }

\* One element per player of a row: the hero and whether the team won.
Appearances(rows) ==
    UNION { { [m |-> r.match_id, side |-> "radiant", i |-> i,
               hero |-> RadiantOf(r)[i], won |-> r.radiant_win = 1] :
              i \in DOMAIN RadiantOf(r) }
            \cup
            { [m |-> r.match_id, side |-> "dire", i |-> i,
               hero |-> DireOf(r)[i], won |-> r.radiant_win = 0] :
              i \in DOMAIN DireOf(r) } : r \in rows }

\* One element per pair of opponents with different heroes; won: the side
\* of the hero with the smaller id won.
Oppositions(rows) ==
    UNION { { [m |-> r.match_id, i |-> q[1], j |-> q[2],
               a |-> Min(RadiantOf(r)[q[1]], DireOf(r)[q[2]]),
               b |-> Max(RadiantOf(r)[q[1]], DireOf(r)[q[2]]),
               won |-> IF RadiantOf(r)[q[1]] < DireOf(r)[q[2]]
                       THEN r.radiant_win = 1 ELSE r.radiant_win = 0] :
              q \in { x \in (DOMAIN RadiantOf(r)) \X (DOMAIN DireOf(r)) :
                        RadiantOf(r)[x[1]] # DireOf(r)[x[2]] } }
          : r \in rows }

\* One element per pair of team-mates.
TeamPairs(m, side, heroes, won) ==
    { [m |-> m, side |-> side, i |-> q[1], j |-> q[2],
       a |-> Min(heroes[q[1]], heroes[q[2]]),
       b |-> Max(heroes[q[1]], heroes[q[2]]), won |-> won] :
      q \in { x \in (DOMAIN heroes) \X (DOMAIN heroes) : x[1] < x[2] } }

Partnerships(rows) ==
    UNION { TeamPairs(r.match_id, "radiant", RadiantOf(r), r.radiant_win = 1)
            \cup TeamPairs(r.match_id, "dire", DireOf(r), r.radiant_win = 0)
          : r \in rows }

CountedStats(rows) ==
    LET xs == Appearances(rows)
    IN  { [hero_id |-> h,
           games   |-> Cardinality({ x \in xs : x.hero = h }),
           wins    |-> Cardinality({ x \in xs : x.hero = h /\ x.won })] :
          h \in { x.hero : x \in xs } }

CountedPairs(xs) ==
    { [hero_a |-> k[1], hero_b |-> k[2],
       games  |-> Cardinality({ x \in xs : x.a = k[1] /\ x.b = k[2] }),
       wins   |-> Cardinality({ x \in xs : x.a = k[1] /\ x.b = k[2] /\ x.won })] :
      k \in { <<x.a, x.b>> : x \in xs } }

\* The aggregates in which every row of rows counts exactly once.
CountedAggregates(rows) ==
    [hero_stats    |-> CountedStats(rows),
     hero_matchups |-> CountedPairs(Oppositions(rows)),
     hero_synergy  |-> CountedPairs(Partnerships(rows))]

\* Two aggregate rows of one table with the same key.
SameKey(r, q) == \A f \in DOMAIN r \ {"games", "wins"} : r[f] = q[f]

\* The table that holds, key by key, the counts of base plus the counts of
\* delta.
Merged(base, delta) ==
    { r \in base : \A q \in delta : ~SameKey(r, q) }
    \cup { q \in delta : \A r \in base : ~SameKey(r, q) }
    \cup { [x[1] EXCEPT !.games = @ + x[2].games, !.wins = @ + x[2].wins] :
             x \in { y \in base \X delta : SameKey(y[1], y[2]) } }

PlayerRows(p) ==
    { [match_id |-> p.match_id, hero_id |-> p.players[i].hero_id,
       player_slot |-> p.players[i].player_slot,
       is_radiant |-> p.players[i].is_radiant] : i \in DOMAIN p.players }

\* after is before plus everything record p brings, once: its row, and when
\* the match is long enough its player rows and its counts.
AppliedOnce(before, after, p) ==
    LET delta == CountedAggregates(Remaining({MatchRow(p)}))
    IN  /\ after.matches = before.matches \cup {MatchRow(p)}
        /\ after.match_players =
               before.match_players \cup
               (IF TooShort(p.duration) THEN {} ELSE PlayerRows(p))
        /\ after.hero_stats = Merged(before.hero_stats, delta.hero_stats)
        /\ after.hero_matchups = Merged(before.hero_matchups, delta.hero_matchups)
        /\ after.hero_synergy = Merged(before.hero_synergy, delta.hero_synergy)

\* The arguments save_match_and_update_aggregates gets when a stored row is
\* replayed.
RowRecord(row) ==
    [match_id       |-> row.match_id,
     start_time     |-> row.start_time,
     duration       |-> row.duration,
     game_mode      |-> row.game_mode,
     lobby_type     |-> row.lobby_type,
     radiant_win    |-> BoolOf(row.radiant_win),
     radiant_heroes |-> RadiantOf(row),
     dire_heroes    |-> DireOf(row),
     players        |-> <<>>]

\* The stores reached from d by saving every row of rows once, in every order.
RECURSIVE Replays(_, _)
Replays(d, rows) ==
    IF rows = {} THEN {d}
    ELSE UNION { Replays(save_match_and_update_aggregates(d, RowRecord(r)), rows \ {r}) :
                 r \in rows }

(***************************************************************************)
(* Properties                                                              *)
(***************************************************************************)
\* C10: in every state, committed or inside a transaction, every hero_stats
\* row and every hero_matchups row has 0 <= wins <= games.
WinsWithinGames ==
    \A d \in {db, txn.work} :
        \A r \in d.hero_stats \cup d.hero_matchups :
            0 <= r.wins /\ r.wins <= r.games

\* C10 happens: a hero with two games, both won, and a matchup met twice
\* with one win for the first hero, all committed.
WinsWithinGamesSeen ==
    /\ \E r \in db.hero_stats : r.games = 2 /\ r.wins = 2
    /\ \E r \in db.hero_matchups : r.games = 2 /\ r.wins = 1

\* C9 (as stated): every row of hero_matchups and of hero_synergy has
\* hero_a < hero_b, strictly.
PairsStrictlyOrdered ==
    \A r \in db.hero_matchups \cup db.hero_synergy : r.hero_a < r.hero_b

\* C3 (as stated): for every hero h, hero_stats(h).games is the number of
\* stored rows that contain h and whose duration is null or >= the minimum.
GamesCountRows ==
    \A h \in HeroIds :
        get_hero_total_games(db, h) =
            Cardinality(RowsContaining(Remaining(db.matches), h))

\* C1: a save for a match_id that is already stored leaves all five tables
\* as they were, whatever the payload: neither the committed rows nor the
\* rows the transaction is about to commit differ from the rows before.
SaveStoredIsNoOp ==
    (txn.op = "save" /\ match_exists(txn.before, txn.p.match_id)) =>
        /\ db = txn.before
        /\ txn.pc = "commit" => txn.work = txn.before

\* C1 happens: a save has returned for a stored, counted match_id with a
\* payload other than the stored one.
SaveStoredIsNoOpSeen ==
    /\ txn.op = "save" /\ txn.pc = "returned" /\ txn.result = "ok"
    /\ ~TooShort(txn.p.duration)
    /\ \E r \in Remaining(db.matches) :
           r.match_id = txn.p.match_id /\ r # MatchRow(txn.p)

\* C2: a save that raised leaves the store as before the call (for a match
\* that was not stored: no row, no player row, no count of it, and
\* match_exists false); the retry that then succeeds applies the row, the
\* player rows and the counts exactly once.
SaveAllOrNothing ==
    txn.op = "save" =>
        /\ (txn.pc = "returned" /\ txn.result = "error") =>
               /\ db = txn.before
               /\ ~match_exists(txn.before, txn.p.match_id) =>
                      /\ ~match_exists(db, txn.p.match_id)
                      /\ \A r \in db.match_players : r.match_id # txn.p.match_id
        /\ (txn.pc = "returned" /\ txn.result = "ok" /\ txn.retry /\ txn.is_new) =>
               AppliedOnce(txn.before, db, txn.p)

\* C2 happens: the first attempt raised in the last upsert loop, the retry
\* has committed on top of counts of another match.
SaveAllOrNothingSeen ==
    /\ txn.op = "save" /\ txn.pc = "returned" /\ txn.result = "ok"
    /\ txn.retry /\ txn.is_new /\ txn.failed_at = "hero_synergy"
    /\ ~TooShort(txn.p.duration)
    /\ txn.before.hero_stats # {}

\* C4: after recalculate_all_aggregates the three aggregate tables are those
\* of an empty store into which every stored match is saved once, in any
\* order.
RecalcIsReplay ==
    (txn.op = "recalc" /\ txn.pc = "returned" /\ txn.result = "ok") =>
        \A d \in Replays(EmptyDb, db.matches) : Aggregates(d) = Aggregates(db)

\* C4 happens: a recalculation has returned over a counted match and a match
\* too short to count.
RecalcIsReplaySeen ==
    /\ txn.op = "recalc" /\ txn.pc = "returned" /\ txn.result = "ok"
    /\ \E r \in db.matches : TooShort(r.duration)
    /\ Remaining(db.matches) # {}

\* C5: after delete_matches_and_recalculate(S), S not empty, no row of
\* matches or match_players belongs to S, and the aggregates are those in
\* which every eligible match outside S counts exactly once and no match
\* of S counts.
EvictRebuilds ==
    (txn.op = "evict" /\ txn.pc = "returned" /\ txn.result = "ok") =>
        /\ \A r \in db.matches \cup db.match_players : r.match_id \notin txn.ids
        /\ Aggregates(db) =
               CountedAggregates({ r \in Remaining(txn.before.matches) :
                                     r.match_id \notin txn.ids })

\* C5 happens: an eviction has returned that removed a counted match and
\* kept another counted match.
EvictRebuildsSeen ==
    /\ txn.op = "evict" /\ txn.pc = "returned" /\ txn.result = "ok"
    /\ \E r \in Remaining(txn.before.matches) : r.match_id \in txn.ids
    /\ \E r \in Remaining(txn.before.matches) : r.match_id \notin txn.ids

\* C7: at every point of a save a reader sees either nothing of the call
\* (the store as before, without the row) or the row together with all it
\* brings.
SaveSnapshot ==
    (txn.op = "save" /\ txn.result # "blocked") =>
        \/ ~match_exists(db, txn.p.match_id) /\ db = txn.before
        \/ /\ match_exists(db, txn.p.match_id)
           /\ IF match_exists(txn.before, txn.p.match_id)
              THEN db = txn.before
              ELSE AppliedOnce(txn.before, db, txn.p)

\* C7 happens: inside the transaction the row and the hero_stats increments
\* are written, the other increments are not, and a reader sees no row.
SaveSnapshotSeen ==
    /\ txn.op = "save" /\ txn.pc = "hero_matchups"
    /\ match_exists(txn.work, txn.p.match_id)
    /\ txn.work.hero_stats # db.hero_stats
    /\ ~match_exists(db, txn.p.match_id)

\* C8: while delete_matches_and_recalculate runs, and after it has raised,
\* a reader sees the five tables as before the call; the only other thing
\* it ever sees is the rebuilt store after the return.
EvictAtomic ==
    (txn.op = "evict" /\ txn.ids # {}) =>
        /\ (txn.pc # "returned" \/ txn.result = "error") => db = txn.before
        /\ \/ db = txn.before
           \/ Aggregates(db) = CountedAggregates(Remaining(db.matches))

\* C8 happens: an eviction of a stored match has raised after the aggregate
\* tables were emptied, and the counts are there.
EvictAtomicSeen ==
    /\ txn.op = "evict" /\ txn.pc = "returned" /\ txn.result = "error"
    /\ txn.failed_at \in {"accumulate", "insert_matchups", "insert_synergy",
                          "insert_stats", "commit"}
    /\ \E r \in db.matches : r.match_id \in txn.ids
    /\ db.hero_stats # {} /\ db.hero_matchups # {} /\ db.hero_synergy # {}

\* Loop l has found id absent from the store and is processing it, or has
\* saved it in this cycle.
Took(l, id) ==
    \/ loops[l].saved = id
    \/ loops[l].pc \in {"acquire", "fetching"} /\ Head(loops[l].ids) = id

\* C6: when both loops have passed match_exists for the same id before either
\* saved it, at every point of every interleaving there is at most one row
\* for it and the aggregates count every stored match exactly once; when
\* both saves have returned there is exactly one row.
LoopsSaveOnce ==
    \A id \in MatchIds :
        (Took("publicMatches", id) /\ Took("explorer", id)) =>
            /\ Cardinality({ r \in db.matches : r.match_id = id }) <= 1
            /\ Aggregates(db) = CountedAggregates(Remaining(db.matches))
            /\ (loops["publicMatches"].saved = id /\ loops["explorer"].saved = id) =>
                   Cardinality({ r \in db.matches : r.match_id = id }) = 1

\* C6 happens: both loops have saved the same id, a match that counts.
LoopsSaveOnceSeen ==
    \E id \in MatchIds :
        /\ loops["publicMatches"].saved = id
        /\ loops["explorer"].saved = id
        /\ \E r \in Remaining(db.matches) : r.match_id = id
        /\ db.hero_matchups # {}

\* C11: every row of matches, committed or inside a transaction, has a
\* game_mode and a lobby_type that are not null and whose pair is one of the
\* allowed pairs.
StoredModesAllowed ==
    \A d \in {db, txn.work} :
        \A r \in d.matches :
            /\ r.game_mode # NULL
            /\ r.lobby_type # NULL
            /\ <<r.game_mode, r.lobby_type>> \in ALLOWED_GAME_MODE_PAIRS

\* C11 happens: a save with a pair that is not allowed has returned, and the
\* store holds a row.
StoredModesAllowedSeen ==
    /\ txn.op = "save" /\ txn.pc = "returned"
    /\ txn.p.game_mode # NULL /\ txn.p.lobby_type # NULL
    /\ <<txn.p.game_mode, txn.p.lobby_type>> \notin ALLOWED_GAME_MODE_PAIRS
    /\ db.matches # {}

\* The records the claim about the refusal speaks of.
NotAllowed(p) ==
    \/ p.game_mode = NULL
    \/ p.lobby_type = NULL
    \/ <<p.game_mode, p.lobby_type>> \notin ALLOWED_GAME_MODE_PAIRS

\* C12: a save whose game_mode is null, whose lobby_type is null or whose
\* pair is not allowed writes nothing: no transaction is opened, the five
\* tables stay as they were, and the call returns after logging the refusal
\* as an error, without raising.
RefusalWritesNothing ==
    (txn.op = "save" /\ NotAllowed(txn.p)) =>
        /\ txn.pc = "returned" /\ txn.result = "blocked"
        /\ txn.work = EmptyDb
        /\ db = txn.before

\* C12 happens: a save with a null game_mode has returned over a store that
\* holds rows and counts, for a match_id that is not stored.
RefusalWritesNothingSeen ==
    /\ txn.op = "save" /\ txn.pc = "returned" /\ txn.result = "blocked"
    /\ txn.p.game_mode = NULL
    /\ db.matches # {} /\ db.hero_synergy # {}
    /\ ~match_exists(db, txn.p.match_id)

\* The rows of matches whose duration is known and below the minimum.
ShortRows(rows) ==
    { r \in rows : r.duration # NULL /\ r.duration < MIN_MATCH_DURATION_SECONDS }

\* C13: the store starts empty and its committed rows stay as they were while
\* a call runs; whenever a call has returned with rows other than those before
\* it, after a save as after a rebuild, the three aggregate tables are the
\* counts of the stored rows that are not too short: a row with a known
\* duration below the minimum may be stored and adds to no count, a row with
\* a null duration counts.
ShortMatchesUncounted ==
    /\ txn.pc \notin {"idle", "returned"} => db = txn.before
    /\ (txn.pc = "returned" /\ db # txn.before) =>
           Aggregates(db) = CountedAggregates(db.matches \ ShortRows(db.matches))

\* C13 happens: the save of a new match that is too short has returned, its
\* row is stored, and the store counts a match of null duration.
ShortMatchesUncountedSeen ==
    /\ txn.op = "save" /\ txn.pc = "returned" /\ txn.result = "ok" /\ txn.is_new
    /\ MatchRow(txn.p) \in ShortRows(db.matches)
    /\ \E r \in db.matches : r.duration = NULL
    /\ db.hero_stats # {}

\* Five heroes a side, all ten different.
TenDistinct(p) ==
    /\ Len(p.radiant_heroes) = 5 /\ Len(p.dire_heroes) = 5
    /\ Cardinality({ p.radiant_heroes[i] : i \in 1..5 }
                   \cup { p.dire_heroes[i] : i \in 1..5 }) = 10

\* The count in column f of the row of tbl with this key; 0 without a row.
CountOf(tbl, key, f) ==
    IF \E r \in tbl : SameKey(key, r)
    THEN (CHOOSE r \in tbl : SameKey(key, r))[f]
    ELSE 0

\* The row with this key has one game more in after than in before, and w
\* wins more.
Bumped(before, after, key, w) ==
    /\ Cardinality({ r \in after : SameKey(key, r) }) = 1
    /\ CountOf(after, key, "games") = CountOf(before, key, "games") + 1
    /\ CountOf(after, key, "wins") = CountOf(before, key, "wins") + w

\* The rows whose key is none of keys are the same in before and after, and
\* after holds exactly n rows with a key of keys.
OnlyTouched(before, after, keys, n) ==
    /\ { r \in after : \A k \in keys : ~SameKey(k, r) } =
       { r \in before : \A k \in keys : ~SameKey(k, r) }
    /\ Cardinality({ r \in after : \E k \in keys : SameKey(k, r) }) = n

\* C14: the save of a new, allowed match that is long enough and has ten
\* different heroes changes the aggregates by exactly this: each of the 10
\* heroes has one game more in hero_stats, and one win more iff its team won;
\* each of the 25 pairs of opponents has one game more in hero_matchups (and
\* one win more iff the side of the hero with the smaller id won); each of
\* the 10 + 10 pairs of team-mates has one game more in hero_synergy, and one
\* win more iff that team won; every other aggregate row is as before.
SaveExactDelta ==
    (/\ txn.op = "save" /\ txn.pc = "returned" /\ txn.result = "ok"
     /\ ~match_exists(txn.before, txn.p.match_id)
     /\ ~NotAllowed(txn.p)
     /\ MatchRow(txn.p) \notin ShortRows({MatchRow(txn.p)})
     /\ TenDistinct(txn.p)) =>
        LET R == txn.p.radiant_heroes
            D == txn.p.dire_heroes
            w == txn.p.radiant_win
            b == txn.before
            Pairs == { x \in (1..5) \X (1..5) : x[1] < x[2] }
            StatKeys == { StatKey(R[i]) : i \in 1..5 } \cup { StatKey(D[i]) : i \in 1..5 }
            CrossKeys == { PairKey(Min(R[x[1]], D[x[2]]), Max(R[x[1]], D[x[2]])) :
                             x \in (1..5) \X (1..5) }
            TeamKeys == { PairKey(Min(R[x[1]], R[x[2]]), Max(R[x[1]], R[x[2]])) : x \in Pairs }
                        \cup
                        { PairKey(Min(D[x[1]], D[x[2]]), Max(D[x[1]], D[x[2]])) : x \in Pairs }
        IN  /\ \A i \in 1..5 :
                   /\ Bumped(b.hero_stats, db.hero_stats, StatKey(R[i]), IntOf(w))
                   /\ Bumped(b.hero_stats, db.hero_stats, StatKey(D[i]), IntOf(~w))
            /\ \A x \in (1..5) \X (1..5) :
                   Bumped(b.hero_matchups, db.hero_matchups,
                          PairKey(Min(R[x[1]], D[x[2]]), Max(R[x[1]], D[x[2]])),
                          IntOf(IF R[x[1]] < D[x[2]] THEN w ELSE ~w))
            /\ \A x \in Pairs :
                   /\ Bumped(b.hero_synergy, db.hero_synergy,
                             PairKey(Min(R[x[1]], R[x[2]]), Max(R[x[1]], R[x[2]])), IntOf(w))
                   /\ Bumped(b.hero_synergy, db.hero_synergy,
                             PairKey(Min(D[x[1]], D[x[2]]), Max(D[x[1]], D[x[2]])), IntOf(~w))
            /\ OnlyTouched(b.hero_stats, db.hero_stats, StatKeys, 10)
            /\ OnlyTouched(b.hero_matchups, db.hero_matchups, CrossKeys, 25)
            /\ OnlyTouched(b.hero_synergy, db.hero_synergy, TeamKeys, 20)

\* C14 happens: such a save has returned for a match Dire won, over a store
\* that counted another line-up: some rows were updated, some inserted.
SaveExactDeltaSeen ==
    /\ txn.op = "save" /\ txn.pc = "returned" /\ txn.result = "ok" /\ txn.is_new
    /\ ~NotAllowed(txn.p) /\ TenDistinct(txn.p) /\ ~txn.p.radiant_win
    /\ MatchRow(txn.p) \notin ShortRows({MatchRow(txn.p)})
    /\ txn.before.hero_synergy # {}
    /\ \E r \in db.hero_synergy : r.games = 2
    /\ \E r \in db.hero_synergy : r.games = 1

\* C15 (as stated): acquisitions are serialized: the times at which any two
\* acquire() calls return, to one task or to two, are at least
\* 60 / max_per_minute apart.
AcquiresSpaced ==
    \A i, j \in DOMAIN limiter.calls :
        i < j => limiter.calls[j].at - limiter.calls[i].at >= _min_delay

\* C16 (as stated): in every window of 60 seconds the provider calls of the
\* worker, all loops together, are at most MAX_REQUESTS_PER_MINUTE.
CallsWithinCeiling ==
    \A t \in 0..MaxTime :
        Cardinality({ i \in DOMAIN limiter.calls :
                        /\ t <= limiter.calls[i].at
                        /\ limiter.calls[i].at < t + TicksPerMinute })
            <= MAX_REQUESTS_PER_MINUTE

\* The rows of one refresh: what one answer of the provider gives for hero h
\* at one time.
OneRefresh(h, rows) ==
    \E api_data \in Responses : \E t \in 0..MaxHours :
        rows = AddRows({}, h, ToCache(api_data, isoformat(t)), isoformat(t))

Newest(rows) ==
    CHOOSE t \in { fromisoformat(x.updated_at) : x \in rows } :
        \A x \in rows : fromisoformat(x.updated_at) <= t

\* The sequence holds each row of the set once, without the hero_id, the
\* greater winrate first.
Returns(ret, rows) ==
    /\ Len(ret) = Cardinality(rows)
    /\ \A x \in rows : \E i \in DOMAIN ret :
           ret[i] = [opponent_hero_id |-> x.opponent_hero_id, games |-> x.games,
                     wins |-> x.wins, winrate |-> x.winrate,
                     updated_at |-> x.updated_at]
    /\ \A i, j \in DOMAIN ret : i < j => ret[i].winrate >= ret[j].winrate

\* C18: a call for a hero that has rows in the cache, the newest of them
\* younger than CACHE_TTL_HOURS, returns those rows, sorted, without calling
\* the provider and leaves the table as it is; any other call (no rows, or an
\* age of CACHE_TTL_HOURS or more) calls the provider.
CacheHitRule ==
    [][\A r \in Requests :
          (cache.req[r].pc = "idle" /\ cache'.req[r].pc # "idle") =>
              LET q == cache'.req[r]
                  rows == RowsOfHero(cache.rows, q.hero_id)
              IN  IF rows # {} /\ cache.now - Newest(rows) < CACHE_TTL_HOURS
                  THEN /\ q.pc = "returned" /\ q.result = "hit" /\ ~q.called
                       /\ Returns(q.ret, rows)
                       /\ cache'.rows = cache.rows
                  ELSE q.pc = "fetching" /\ q.called]_vars

\* C18 happens: one request has returned the two fresh rows of a hero, the
\* other one has found rows that are too old and is calling the provider.
CacheHitRuleSeen ==
    \E r, o \in Requests :
        /\ cache.req[r].pc = "returned" /\ cache.req[r].result = "hit"
        /\ Len(cache.req[r].ret) = 2
        /\ cache.req[o].pc = "fetching" /\ cache.req[o].cached # {}

\* C19: when the provider call of a miss fails, the call returns the rows it
\* has read if there are any, and raises the provider's error only if there
\* are none; the table is left as it is either way.
StaleOnFailure ==
    [][\A r \in Requests :
          (cache.req[r].pc = "fetching" /\ cache'.req[r].pc = "returned") =>
              LET q == cache'.req[r]
              IN  /\ cache'.rows = cache.rows
                  /\ IF cache.req[r].cached # {}
                     THEN /\ q.result = "stale"
                          /\ Len(q.ret) = Cardinality(cache.req[r].cached)
                          /\ { q.ret[i] : i \in DOMAIN q.ret } = cache.req[r].cached
                          /\ \A i, j \in DOMAIN q.ret :
                                 i < j => q.ret[i].winrate >= q.ret[j].winrate
                     ELSE q.result = "provider_error" /\ q.ret = <<>>]_vars

\* C19 happens: one request has returned two stale rows after a provider
\* error, the other has raised the provider's error for a hero without rows.
StaleOnFailureSeen ==
    \E r, o \in Requests :
        /\ cache.req[r].pc = "returned" /\ cache.req[r].result = "stale"
        /\ Len(cache.req[r].ret) = 2
        /\ cache.req[o].pc = "returned" /\ cache.req[o].result = "provider_error"

\* The rows the answer api_data gives for hero h, stamped stamp: one per
\* element that names an opponent and has games.
Derived(h, api_data, stamp) ==
    { [hero_id |-> h, opponent_hero_id |-> e.hero_id, games |-> e.games_played,
       wins |-> e.wins, winrate |-> Round4(e.wins, e.games_played),
       updated_at |-> stamp] :
      e \in { api_data[i] : i \in { k \in DOMAIN api_data :
                                      /\ api_data[k].hero_id \notin {NULL, 0}
                                      /\ api_data[k].games_played # 0 } } }

ExpiredNeverResolves ==
    [][(tokens'.last.op = "resolve" /\ tokens' # tokens /\ tokens'.now = tokens.now) =>
          LET token == tokens'.last.token
              result == tokens'.last.result
              found == { r \in tokens.rows : r.token = token }
          IN  /\ found = {} => result = NULL /\ tokens'.rows = tokens.rows
              /\ \A r \in found :
                     r.expires_at < tokens.now =>
                         /\ result = NULL
                         /\ tokens'.rows = tokens.rows \ {r}
                         /\ \A x \in tokens'.rows : x.token # token]_vars

\* C21 happens: a lookup after the deadline has returned None and removed the
\* row of a token that was issued, while the other token still has its row.
ExpiredNeverResolvesSeen ==
    /\ tokens.last.op = "resolve" /\ tokens.last.result = NULL
    /\ tokens.last.at = tokens.now
    /\ \E i \in tokens.issued : i.token = tokens.last.token /\ i.at + TokenHours < tokens.now
    /\ \A r \in tokens.rows : r.token # tokens.last.token
    /\ tokens.rows # {}

\* C22: there is no sliding expiration.  Whatever lookups were made, the row
\* of a token issued at hour t to user u stays as it was created (u, t + the
\* lifetime) through hour t + lifetime, and a lookup returns u if it is made
\* at an hour up to t + lifetime and None if it is made later or if the token
\* was never issued.
NoSlidingExpiration ==
    /\ \A i \in tokens.issued :
           tokens.now <= i.at + TokenHours =>
               { r \in tokens.rows : r.token = i.token } =
                   {[token |-> i.token, user_id |-> i.user_id,
                     expires_at |-> i.at + TokenHours]}
    /\ tokens.last.op = "resolve" =>
           LET made == { i \in tokens.issued : i.token = tokens.last.token }
           IN  /\ made = {} => tokens.last.result = NULL
               /\ \A i \in made :
                      tokens.last.result =
                          IF tokens.last.at <= i.at + TokenHours
                          THEN i.user_id ELSE NULL

\* C22 happens: a token issued two hours ago, at the last hour of its life,
\* has just been resolved to its user.
NoSlidingExpirationSeen ==
    /\ tokens.last.op = "resolve" /\ tokens.last.result # NULL
    /\ tokens.last.at = tokens.now
    /\ \E i \in tokens.issued :
           /\ i.token = tokens.last.token
           /\ i.at + TokenHours = tokens.now
           /\ i.user_id = tokens.last.result

\* The rows of the store d that started before the cutoff of the running
\* cleanup.
TooOld(d) == { r \in d.matches : r.start_time < cleanup.now - DAYS_TO_KEEP * SecondsPerDay }

\* C23: after the age phase of run_cleanup (the job stands at its count of the
\* matches) no stored match started before now - DAYS_TO_KEEP * 86400, every
\* match that was stored when the job began and started at or after that cutoff
\* is still stored, row for row, and hero_stats, hero_matchups and hero_synergy
\* are the counts over exactly the matches that remain.
AgePhaseKeepsRecent ==
    cleanup.pc = "count" =>
        /\ TooOld(db) = {}
        /\ db.matches = cleanup.before.matches \ TooOld(cleanup.before)
        /\ Aggregates(db) = CountedAggregates(db.matches \ ShortRows(db.matches))

\* C23 happens: the age phase has deleted one match and kept a counted one.
AgePhaseKeepsRecentSeen ==
    /\ cleanup.pc = "count"
    /\ TooOld(cleanup.before) # {}
    /\ db.matches # {} /\ db.hero_stats # {}
    /\ db.matches # cleanup.before.matches

\* C24: when run_cleanup has completed, matches holds at most MAX_MATCHES rows;
\* when its size phase deleted, it deleted exactly the rows above MAX_MATCHES
\* that it had counted, and none of them started later than a row it kept.
SizePhaseTrimsOldest ==
    cleanup.pc = "done" =>
        /\ Cardinality(db.matches) <= MAX_MATCHES
        /\ db.matches \subseteq cleanup.mid.matches
        /\ LET evicted == cleanup.mid.matches \ db.matches
           IN  evicted # {} =>
                   /\ Cardinality(evicted) =
                          Cardinality(cleanup.mid.matches) - MAX_MATCHES
                   /\ \A e \in evicted : \A k \in db.matches :
                          e.start_time <= k.start_time

\* C24 happens: the size phase has deleted the older of two recent matches.
SizePhaseTrimsOldestSeen ==
    /\ cleanup.pc = "done"
    /\ cleanup.old_ids = {}
    /\ cleanup.mid.matches \ db.matches # {}
    /\ db.matches # {}

\* C25: when no stored match is older than the cutoff and matches holds at
\* most MAX_MATCHES rows, run_cleanup changes no table and opens no
\* transaction.
IdleCleanupChangesNothing ==
    ( /\ cleanup.pc # "idle"
      /\ TooOld(cleanup.before) = {}
      /\ Cardinality(cleanup.before.matches) <= MAX_MATCHES )
    => /\ db = cleanup.before
       /\ txn = Idle
       /\ cleanup.pc \in {"count", "done"}

\* C25 happens: run_cleanup has completed over a store of one recent match.
IdleCleanupChangesNothingSeen ==
    /\ cleanup.pc = "done"
    /\ TooOld(cleanup.before) = {}
    /\ Cardinality(cleanup.before.matches) = MAX_MATCHES
    /\ cleanup.before.hero_stats # {}

\* The indices of the players of a payload on the side chosen by radiant.
SideOf(players, radiant) ==
    { i \in DOMAIN players :
        /\ players[i].player_slot # NULL
        /\ (players[i].player_slot < 128) = radiant }

\* The payload has exactly 10 players, each with a hero_id that is neither
\* null nor zero, 5 of them with player_slot < 128 and 5 with >= 128.
TenFiveFive(details) ==
    /\ Len(details.players) = 10
    /\ \A i \in DOMAIN details.players : details.players[i].hero_id \notin {NULL, 0}
    /\ Cardinality(SideOf(details.players, TRUE)) = 5
    /\ Cardinality(SideOf(details.players, FALSE)) = 5

\* C26: the parser returns a record only for a payload of exactly 10 players,
\* all with a non-null, non-zero hero_id, that player_slot splits 5 and 5; for
\* every other payload it returns the rejection, process_single_match returns
\* False and no table is written.
ParserAcceptsTenFiveFive ==
    proc.pc = "returned" =>
        /\ proc.parsed # NoRecord => TenFiveFive(proc.details)
        /\ ~TenFiveFive(proc.details) =>
               /\ proc.parsed = NoRecord
               /\ proc.result = FALSE
               /\ db = proc.before

\* C26 happens: a payload with ten heroes split 6 and 4 has been refused, with
\* a match already in the store.
ParserAcceptsTenFiveFiveSeen ==
    /\ proc.pc = "returned"
    /\ Len(proc.details.players) = 10
    /\ Cardinality(SideOf(proc.details.players, TRUE)) = 6
    /\ proc.parsed = NoRecord
    /\ db.matches # {}

\* C27: every row of matches has radiant_heroes and dire_heroes of exactly 5
\* hero ids each, and no hero id is in both: a payload with a hero on both
\* teams is refused before any write.
TeamsFiveAndDisjoint ==
    \A row \in db.matches :
        LET r == JsonLoads(row.radiant_heroes)
            d == JsonLoads(row.dire_heroes)
        IN  /\ Len(r) = 5 /\ Len(d) = 5
            /\ { r[i] : i \in DOMAIN r } \cap { d[i] : i \in DOMAIN d } = {}

\* C28: no failure inside a cycle (the listing or a query raising, the detail
\* call raising, the parser or the mode filter refusing, match_exists or the
\* save raising) ends a loop: each of the two loops starts a new cycle
\* infinitely often.
LoopsNeverStop ==
    \A l \in LoopNames :
        /\ []<>(loops[l].cycle = 0)
        /\ []<>(loops[l].cycle = 1)

\* C28 happens: match_exists has raised in the explorer loop, and the loop has
\* started its next cycle with an id to handle.
LoopsNeverStopSeen ==
    /\ loops["explorer"].pc = "for"
    /\ loops["explorer"].failed = "exists"
    /\ loops["explorer"].ids # <<>>

\* The rows of hero_matchups, as the first read of the request saw them, that
\* involve the hero asked for and have at least min_games games.
EligiblePairs ==
    { x \in reply.read.hero_matchups :
        /\ x.hero_a = reply.hero_id \/ x.hero_b = reply.hero_id
        /\ x.games >= reply.min_games }

OpponentIn(x) == IF x.hero_a = reply.hero_id THEN x.hero_b ELSE x.hero_a

\* The opponents listed in a list of the response.
Listed(list) == { list[i].hero_id : i \in DOMAIN list }

\* The eligible rows that neither list holds.
Unlisted ==
    { x \in EligiblePairs :
        OpponentIn(x) \notin Listed(reply.counters) \cup Listed(reply.victims) }

Opposed(x, y) ==
    { m \in reply.read.matches \ ShortRows(reply.read.matches) :
        LET r == { RadiantOf(m)[i] : i \in DOMAIN RadiantOf(m) }
            d == { DireOf(m)[i] : i \in DOMAIN DireOf(m) }
        IN  (x \in r /\ y \in d) \/ (x \in d /\ y \in r) }

\* Those of them that the team of x, the one opposite to y, won.
WonAgainst(x, y) ==
    { m \in Opposed(x, y) :
        LET r == { RadiantOf(m)[i] : i \in DOMAIN RadiantOf(m) }
            d == { DireOf(m)[i] : i \in DOMAIN DireOf(m) }
        IN  \/ x \in r /\ y \in d /\ m.radiant_win = 1
            \/ x \in d /\ y \in r /\ m.radiant_win = 0 }

\* C30: for distinct heroes X and Y, the rows returned for X with min_games = 1
\* report for the opponent Y as games the number of stored, counted matches
\* with X and Y on opposite teams and as wins the number of those that the
\* team of X won (no row when there is none), whichever id is smaller; so the
\* wins of X against Y and of Y against X add up to the games.
MatchupRowsCountMatches ==
    (reply.op = "counters" /\ reply.pc # "idle" /\ reply.min_games = 1) =>
        \A y \in HeroIds \ {reply.hero_id} :
            LET of_y == { row \in reply.rows : row.hero_id = y }
                back == { row \in get_hero_matchup_rows(reply.read, y, 1) :
                            row.hero_id = reply.hero_id }
            IN  IF Opposed(reply.hero_id, y) = {} THEN of_y = {}
                ELSE /\ Cardinality(of_y) = 1
                     /\ \A row \in of_y :
                            /\ row.games = Cardinality(Opposed(reply.hero_id, y))
                            /\ row.wins = Cardinality(WonAgainst(reply.hero_id, y))
                            /\ \A b \in back : row.wins + b.wins = row.games

RECURSIVE SumGames(_)
SumGames(rows) ==
    IF rows = {} THEN 0
    ELSE LET row == CHOOSE x \in rows : TRUE
         IN  row.games + SumGames(rows \ {row})

\* C31: in every committed state, for every hero h, the games of the
\* hero_matchups rows that have h as hero_a or hero_b add up to 5 times the
\* games of the hero_stats row of h (0 without a row).
MatchupGamesFiveTimesStats ==
    \A h \in HeroIds :
        SumGames({ x \in db.hero_matchups : x.hero_a = h \/ x.hero_b = h }) =
            5 * get_hero_total_games(db, h)

\* C32: the stored rank_bucket follows from the stored avg_rank_tier by fixed
\* boundaries: none or 0 "unknown", 1..20 "low", 21..35 "mid", 36..50 "high",
\* 51..60 "very_high", 61 and more "immortal"; and when the detail payload has
\* no avg_rank_tier and the listing entry has one, the stored avg_rank_tier is
\* the listing's.
RankBucketRule ==
    ranked.pc = "stored" =>
        /\ LET t == ranked.avg_rank_tier
               b == ranked.rank_bucket
           IN  /\ (t = NULL \/ t = 0) => b = "unknown"
               /\ t \in 1..20 => b = "low"
               /\ t \in 21..35 => b = "mid"
               /\ t \in 36..50 => b = "high"
               /\ t \in 51..60 => b = "very_high"
               /\ (t # NULL /\ t >= 61) => b = "immortal"
        /\ (ranked.detail = NULL /\ ranked.summary # NULL) =>
               ranked.avg_rank_tier = ranked.summary

\* C32 happens: the detail payload had no avg_rank_tier, the listing had 20,
\* and 20 with the bucket "low" was stored.
RankBucketRuleSeen ==
    /\ ranked.pc = "stored"
    /\ ranked.detail = NULL /\ ranked.summary = 20
    /\ ranked.avg_rank_tier = 20 /\ ranked.rank_bucket = "low"

\* C33: while FETCH_MATCH_DETAILS is off, neither the listing loop nor the
\* query loop has a detail call out, and no match is in the store.
NoDetailsWhenSwitchedOff ==
    ~worker.fetch =>
        /\ \A r \in worker.inflight : r.id = 0
        /\ \A l \in LoopNames : loops[l].calls = 0
        /\ db.matches = {}

IdsOf(seq) == { seq[i] : i \in 1..Len(seq) }

\* C34: with the listing loop switched on, every match that stays in the
\* provider's listing is stored in the end.
ListedIsEventuallyStored ==
    worker.fetch ~> (\A id \in IdsOf(worker.listing) : match_exists(db, id))

\* What the listing loop does reach: the entries of the listing within the
\* per-cycle cap are stored in the end.
ListedWithinCapIsEventuallyStored ==
    worker.fetch ~> (\A id \in IdsOf(Capped("publicMatches", worker.listing)) :
                         match_exists(db, id))

\* The requests of the loop l that are out.
Out(l) == { r \in worker.inflight : r.loop = l }

\* C36: a loop handles the ids of a cycle one after the other in the order
\* the provider gave them, with at most one request out: a detail call is
\* out only for the first id not yet handled, all ids before it being done.
OneRequestAtATime ==
    \A l \in LoopNames :
        /\ Cardinality(Out(l)) <= 1
        /\ \E k \in 0..Len(loops[l].list) :
               loops[l].ids = SubSeq(loops[l].list, k + 1, Len(loops[l].list))
        /\ \A r \in Out(l) :
               IF r.id = 0
               THEN loops[l].pc = "listing"
               ELSE /\ loops[l].pc = "fetching"
                    /\ loops[l].ids # <<>>
                    /\ r.id = Head(loops[l].ids)

\* The detail call for the second id of a cycle is out, the first id being
\* saved.
OneRequestAtATimeSeen ==
    \E l \in LoopNames :
        /\ Len(loops[l].list) = 2
        /\ loops[l].ids = <<loops[l].list[2]>>
        /\ Out(l) = {Sent(l, loops[l].list[2])}
        /\ match_exists(db, loops[l].list[1])

\* C37: a loop that reaches an id already in the store spends no detail call
\* and no acquisition on it, and a cycle of the listing loop makes at most
\* MAX_MATCHES_PER_CYCLE detail calls.
ExistingCostsNothing ==
    /\ [](loops["publicMatches"].calls <= MAX_MATCHES_PER_CYCLE)
    /\ [][\A l \in LoopNames :
              (/\ loops[l].pc = "for" /\ loops[l].ids # <<>>
               /\ match_exists(db, Head(loops[l].ids))
               /\ loops'[l] # loops[l])
              => /\ loops'[l].calls = loops[l].calls
                 /\ loops'[l].acq = loops[l].acq
                 /\ Out(l)' = Out(l)
                 /\ loops'[l].pc # "fetching"]_vars

\* The listing loop, over a listing longer than the cap, has skipped an id
\* already stored and made no call in the cycle.
ExistingCostsNothingSeen ==
    /\ Len(worker.listing) > MAX_MATCHES_PER_CYCLE
    /\ loops["publicMatches"].pc = "for"
    /\ loops["publicMatches"].list # <<>>
    /\ loops["publicMatches"].ids = <<>>
    /\ loops["publicMatches"].calls = 0
    /\ loops["publicMatches"].acq = 1
    /\ match_exists(db, loops["publicMatches"].list[1])

\* The cross-team pairs of a stored match, by position: the Radiant hero
\* i and the Dire hero j, not the same hero.
CrossPairs(m) ==
    { x \in (DOMAIN RadiantOf(m)) \X (DOMAIN DireOf(m)) :
        RadiantOf(m)[x[1]] # DireOf(m)[x[2]] }

\* The hero of the pair with the smaller id is on the team that won.
SmallerWon(m, x) ==
    LET r == RadiantOf(m)[x[1]]
        d == DireOf(m)[x[2]]
    IN  \/ r < d /\ m.radiant_win = 1
        \/ d < r /\ m.radiant_win = 0

\* The pairs won by their smaller id over the stored matches that count:
\* the match, the positions, the smaller and the larger id.
PairsWonBySmaller ==
    UNION { { <<m.match_id, x, Min(RadiantOf(m)[x[1]], DireOf(m)[x[2]]),
                Max(RadiantOf(m)[x[1]], DireOf(m)[x[2]])>> :
              x \in { y \in CrossPairs(m) : SmallerWon(m, y) } } :
            m \in db.matches \ ShortRows(db.matches) }

\* C35: the wins of the row (min, max) of a cross-team pair count the pairs
\* whose smaller id was on the winning team, on Radiant or on Dire, after
\* saves and after the rebuild of an eviction alike.
WinsFollowSmallerId ==
    LET won == PairsWonBySmaller
    IN  /\ \A x \in db.hero_matchups :
               /\ x.hero_a < x.hero_b
               /\ x.wins = Cardinality({ w \in won : w[3] = x.hero_a /\ w[4] = x.hero_b })
        /\ \A w \in won :
               \E x \in db.hero_matchups : x.hero_a = w[3] /\ x.hero_b = w[4]

\* An eviction has rebuilt the rows and left a match that Radiant won with
\* the smaller id of some pairs on Dire: the row (2, 4) has no win, the row
\* (1, 2) has one.
WinsFollowSmallerIdSeen ==
    /\ txn.op = "evict" /\ txn.pc = "returned" /\ txn.result = "ok"
    /\ \E m \in db.matches :
           /\ m.radiant_win = 1
           /\ \E x \in CrossPairs(m) : RadiantOf(m)[x[1]] > DireOf(m)[x[2]]
    /\ \E x \in db.hero_matchups : x.hero_a = 2 /\ x.hero_b = 4 /\ x.wins = 0
    /\ \E x \in db.hero_matchups : x.hero_a = 1 /\ x.hero_b = 2 /\ x.wins = x.games

\* C38: every row of match_players belongs to a stored match whose duration
\* is null or at least MIN_MATCH_DURATION_SECONDS.
PlayersOfCountedMatchesOnly ==
    \A mp \in db.match_players :
        \E m \in Remaining(db.matches) : m.match_id = mp.match_id

\* C39: run_cleanup starts only at the tick of the listing loop, never
\* sooner than CLEANUP_INTERVAL_HOURS after the last run ended, whether that
\* run returned or raised, and no poll is made before the first run.
CleanupOncePerInterval ==
    /\ [](main.polled => main.attempted # NULL)
    /\ [][(main'.pc = "cleanup" /\ main.pc # "cleanup")
             => /\ main.pc = "tick"
                /\ main.attempted # NULL
                       => main.now - main.attempted >= CLEANUP_INTERVAL_HOURS]_vars

\* A run has started as soon as it may after a run that raised.
CleanupOncePerIntervalSeen ==
    /\ main.pc = "cleanup"
    /\ main.attempted # NULL /\ main.raised
    /\ main.now - main.attempted = CLEANUP_INTERVAL_HOURS

\* The rows of a reply as the API classifies them: its advantage of each
\* row, over the store the ranking read.
AsTheApi(rows) ==
    Enriched(rows, BaseOrNeutral(get_hero_base_winrate_from_db(db, reply.hero_id)))

\* C40: the bot's /counters puts a row among the counters iff the API does,
\* with advantage < 0, and among the victims iff the API does, with
\* advantage >= 0; a row of advantage 0 is a victim in both.
BotSplitsAsTheApi ==
    (reply.op = "bot" /\ reply.pc = "answered" /\ reply.status = 200) =>
        /\ \A i \in DOMAIN reply.counters :
               \E e \in AsTheApi(reply.rows) :
                   e.hero_id = reply.counters[i].hero_id /\ IsCounter(e)
        /\ \A i \in DOMAIN reply.victims :
               \E e \in AsTheApi(reply.rows) :
                   e.hero_id = reply.victims[i].hero_id /\ IsVictim(e)

=============================================================================
